---------------------------- MODULE Spec2Model ----------------------------
(***************************************************************************)
(* KarmaSpark: the ReAct planning engine (src/src/agent.rs), the language   *)
(* model and embedding gateways (src/src/llm.rs) and the memory store      *)
(* (src/src/memory.rs).                                                    *)
(*                                                                         *)
(* Text is modelled as a sequence of atoms.  An atom is either a single    *)
(* character (queries are spelled character by character) or a token that  *)
(* stands for a fixed piece of text (a marker such as ACTION:, a word, a   *)
(* JSON document, a long run of text).  Every atom has a length in bytes   *)
(* (what Rust's str::len() counts) and a length in characters.             *)
(***************************************************************************)
EXTENDS Integers, Sequences, FiniteSets, TLC

VARIABLES
    pc,                          \* position of plan_and_execute: "idle", "loop", "returned"
    query,                       \* the query argument
    state,                       \* PlanningState
    thoughts,                    \* Vec<Thought>
    actions,                     \* Vec<AgentAction>
    observations,                \* Vec<Observation>
    current_step,
    final_answer,
    consecutive_thinking_count,
    result,                      \* what plan_and_execute returned
    next_id,                     \* source of fresh ids (Uuid::new_v4)
    calls,                       \* history: the gateway calls made by this run, in order
    think_run,                   \* history: Thinking iterations since Thinking was last entered
    response,                    \* the Thinking arm's local: the last model reply
    parsed,                      \* the Thinking arm's local: what parse_from_llm_response gave
    transcript,                  \* the Thinking arm's local messages: what the last next-step call sent
    suspended,                   \* the locals of a second plan_and_execute call while it does not run
    scheduled,                   \* which of the two calls the variables above belong to
    script,                      \* what the provider answers to the 1st, 2nd, .. request of a call
    messages,                    \* MistralClient::chat's messages argument
    chat_call,                   \* MistralClient::chat: position, retries, requests, waits, result
    embed_call,                  \* MistralEmbedding::embed_text: the same
    embedding1,                  \* the arguments of the two similarity functions
    embedding2,
    similarity_result,           \* what MistralEmbedding::similarity returned
    cosine_result,               \* what cosine_similarity returned
    db_rows,                     \* the memories table
    last_insert_rowid,           \* the connection's last_insert_rowid()
    db_lock,                     \* Mutex<Connection>: the client holding it, 0 for none
    ops,                         \* per client: the position of its store_memory call
    store_log,                   \* history: the store_memory calls that returned, with their ids
    returned,                    \* the last query of the store, or recall command, and what it returned
    REMINDER_COUNTER,            \* static mut REMINDER_COUNTER
    reminders                    \* per remindme execution: position, value loaded, reminder_id

\* The planning engine's variables.
agent_vars == <<pc, query, state, thoughts, actions, observations, current_step,
                final_answer, consecutive_thinking_count, result, next_id, calls,
                think_run, response, parsed, transcript, suspended, scheduled>>

\* The gateways' variables.
llm_vars == <<script, messages, chat_call, embed_call>>

sim_vars == <<embedding1, embedding2, similarity_result, cosine_result>>

\* The memory store's variables.
store_vars == <<db_rows, last_insert_rowid, db_lock, ops, store_log, returned>>

\* The remindme command's variables.
remind_vars == <<REMINDER_COUNTER, reminders>>

\* What a step of one component leaves alone.
outside_agent == <<llm_vars, sim_vars, store_vars, remind_vars, suspended, scheduled>>
outside_llm == <<agent_vars, sim_vars, store_vars, remind_vars>>
outside_sim == <<agent_vars, llm_vars, store_vars, remind_vars>>
outside_store == <<agent_vars, llm_vars, sim_vars, remind_vars>>
outside_remind == <<agent_vars, llm_vars, sim_vars, store_vars>>

vars == <<agent_vars, llm_vars, sim_vars, store_vars, remind_vars>>

-----------------------------------------------------------------------------
(* Text *)

\* Tokens longer than one byte, with their UTF-8 length (str::len counts bytes).
TokenBytes ==
    [a \in {"ACTION:", "PARAMETERS:", "answer", "search_information",
            "perform_calculation", "send_email", "Paris",
            "{\"final_answer\":\"Paris\"}", "{\"final_answer\":42}",
            "{\"query\":\"x\"}", "{\"query\":\"\"}", "{\"query\":7}",
            "{\"expression\":\"1+1\"}", "{\"expression\":\"\"}", "{}", "{oops",
            "U+00F1", "<500 ASCII letters>", "<300 x U+00E9>"} |->
        CASE a = "ACTION:" -> 7
          [] a = "PARAMETERS:" -> 11
          [] a = "answer" -> 6
          [] a = "search_information" -> 18
          [] a = "perform_calculation" -> 19
          [] a = "send_email" -> 10
          [] a = "Paris" -> 5
          [] a = "{\"final_answer\":\"Paris\"}" -> 24
          [] a = "{\"final_answer\":42}" -> 19
          [] a = "{\"query\":\"x\"}" -> 13
          [] a = "{\"query\":\"\"}" -> 12
          [] a = "{\"query\":7}" -> 11
          [] a = "{\"expression\":\"1+1\"}" -> 20
          [] a = "{\"expression\":\"\"}" -> 17
          [] a = "{}" -> 2
          [] a = "{oops" -> 5
          [] a = "U+00F1" -> 2                  \* one character, two bytes in UTF-8
          [] a = "<500 ASCII letters>" -> 500
          [] a = "<300 x U+00E9>" -> 600]       \* 300 characters of two bytes each

ByteLen(a) == IF a \in DOMAIN TokenBytes THEN TokenBytes[a] ELSE 1

RECURSIVE SumBytes(_, _)
SumBytes(s, i) == IF i > Len(s) THEN 0 ELSE ByteLen(s[i]) + SumBytes(s, i + 1)

\* str::len(): the length in bytes.
StrLen(s) == SumBytes(s, 1)

\* char::to_lowercase on the letters the queries use.
LowerChar(a) ==
    CASE a = "H" -> "h" [] a = "I" -> "i" [] a = "E" -> "e" [] a = "Y" -> "y"
      [] a = "L" -> "l" [] a = "O" -> "o" [] a = "W" -> "w" [] OTHER -> a

\* str::to_lowercase()
ToLowercase(s) == [i \in 1..Len(s) |-> LowerChar(s[i])]

\* str::find(pat): the index of the first match, 0 for None.
Find(s, pat) ==
    LET hits == {i \in 1..(Len(s) - Len(pat) + 1) : SubSeq(s, i, i + Len(pat) - 1) = pat}
    IN  IF hits = {} THEN 0 ELSE CHOOSE i \in hits : \A j \in hits : i <= j

\* str::contains(pat)
Contains(s, pat) == Find(s, pat) # 0

IsWhitespace(a) == a \in {" ", "\n", "\t"}

\* str::trim(): leading and trailing whitespace removed.
Trim(s) ==
    LET keep == {i \in 1..Len(s) : ~IsWhitespace(s[i])}
    IN  IF keep = {} THEN <<>>
        ELSE SubSeq(s, CHOOSE i \in keep : \A j \in keep : i <= j,
                       CHOOSE i \in keep : \A j \in keep : i >= j)

-----------------------------------------------------------------------------
(* serde_json::Value *)

NoFields == [k \in {} |-> 0]

JString(s) == [t |-> "string", s |-> s, m |-> NoFields]
\* For a number s holds its digits; as_str() gives None for it.
JNumber(n) == [t |-> "number", s |-> <<ToString(n)>>, m |-> NoFields]
JObject(m) == [t |-> "object", s |-> <<>>, m |-> m]

\* serde_json::json!({})
EmptyObject == JObject(NoFields)

\* The JSON documents the replies use and the value each parses to.
JsonDocs ==
    [a \in {"{\"final_answer\":\"Paris\"}", "{\"final_answer\":42}",
            "{\"query\":\"x\"}", "{\"query\":\"\"}", "{\"query\":7}",
            "{\"expression\":\"1+1\"}", "{\"expression\":\"\"}", "{}"} |->
        CASE a = "{\"final_answer\":\"Paris\"}" ->
                 JObject([k \in {"final_answer"} |-> JString(<<"Paris">>)])
          [] a = "{\"final_answer\":42}" ->
                 JObject([k \in {"final_answer"} |-> JNumber(42)])
          [] a = "{\"query\":\"x\"}" -> JObject([k \in {"query"} |-> JString(<<"x">>)])
          [] a = "{\"query\":\"\"}" -> JObject([k \in {"query"} |-> JString(<<>>)])
          [] a = "{\"query\":7}" -> JObject([k \in {"query"} |-> JNumber(7)])
          [] a = "{\"expression\":\"1+1\"}" ->
                 JObject([k \in {"expression"} |-> JString(<<"1+1">>)])
          [] a = "{\"expression\":\"\"}" ->
                 JObject([k \in {"expression"} |-> JString(<<>>)])
          [] a = "{}" -> EmptyObject]

\* serde_json::from_str: Ok for a text that is exactly one JSON document.
JsonOk(text) == Len(text) = 1 /\ text[1] \in DOMAIN JsonDocs

JsonValue(text) == JsonDocs[text[1]]

\* Value::get(key): Some only on an object that has the key.
HasKey(v, key) == v.t = "object" /\ key \in DOMAIN v.m

\* Value::as_str(): Some only for a JSON string.
IsStr(v) == v.t = "string"

-----------------------------------------------------------------------------
(* AgentAction::parse_from_llm_response *)

NoAction == [some |-> FALSE, action_type |-> <<>>, parameters |-> EmptyObject]

SomeAction(name, params) == [some |-> TRUE, action_type |-> name, parameters |-> params]

\* response.split("ACTION:").collect()[1]: the text between the first marker
\* and the next one (or the end).
ActionPart(resp) ==
    LET rest == SubSeq(resp, Find(resp, <<"ACTION:">>) + 1, Len(resp))
        nxt  == Find(rest, <<"ACTION:">>)
    IN  IF nxt = 0 THEN rest ELSE SubSeq(rest, 1, nxt - 1)

\* Mutant: the name runs to the end of the segment, not to its first newline.
ActionNameWholeSegment(resp) == Trim(ActionPart(resp))

\* action_text[..action_name_end].trim()
ActionName(resp) ==
    LET action_text == Trim(ActionPart(resp))
        nl          == Find(action_text, <<"\n">>)
        name_end    == IF nl = 0 THEN Len(action_text) ELSE nl - 1
    IN  Trim(SubSeq(action_text, 1, name_end))

\* The text after the first PARAMETERS: up to the next blank line, trimmed.
ParamsJson(resp) ==
    LET params_text == SubSeq(resp, Find(resp, <<"PARAMETERS:">>) + 1, Len(resp))
        blank       == Find(params_text, <<"\n", "\n">>)
        params_end  == IF blank = 0 THEN Len(params_text) ELSE blank - 1
    IN  Trim(SubSeq(params_text, 1, params_end))

ParseParameters(resp) ==
    IF Contains(resp, <<"PARAMETERS:">>) /\ JsonOk(ParamsJson(resp))
    THEN JsonValue(ParamsJson(resp))
    ELSE EmptyObject

\* Mutant: the implicit answer keeps the reply untrimmed.
parse_from_llm_response_untrimmed(resp) ==
    IF ~Contains(resp, <<"ACTION:">>)
    THEN IF StrLen(resp) < 500 /\ ~Contains(resp, <<"PARAMETERS:">>)
         THEN SomeAction(<<"answer">>,
                         JObject([k \in {"final_answer"} |-> JString(resp)]))
         ELSE NoAction
    ELSE SomeAction(ActionName(resp), ParseParameters(resp))

\* Mutant: a PARAMETERS: block that does not parse makes the parse fail.
parse_from_llm_response_strict(resp) ==
    IF ~Contains(resp, <<"ACTION:">>)
    THEN IF StrLen(resp) < 500 /\ ~Contains(resp, <<"PARAMETERS:">>)
         THEN SomeAction(<<"answer">>,
                         JObject([k \in {"final_answer"} |-> JString(Trim(resp))]))
         ELSE NoAction
    ELSE IF Contains(resp, <<"PARAMETERS:">>) /\ ~JsonOk(ParamsJson(resp))
         THEN NoAction
         ELSE SomeAction(ActionName(resp), ParseParameters(resp))

parse_from_llm_response(resp) ==
    IF ~Contains(resp, <<"ACTION:">>)
    THEN IF StrLen(resp) < 500 /\ ~Contains(resp, <<"PARAMETERS:">>)
         THEN SomeAction(<<"answer">>,
                         JObject([k \in {"final_answer"} |-> JString(Trim(resp))]))
         ELSE NoAction
    ELSE SomeAction(ActionName(resp), ParseParameters(resp))

-----------------------------------------------------------------------------
(* Model replies for the wide exploration of the parser. *)

ReplyPrefixes == {<<>>, <<" ">>, <<"Paris">>, <<"<500 ASCII letters>">>,
                  <<"<300 x U+00E9>">>, <<"Paris", "\n", "\n">>}

ReplyActions == {<<>>, <<"ACTION:", " ", "answer">>, <<"ACTION:", "search_information">>,
                 <<"ACTION:", " ", "send_email", " ", "\n", "Paris">>,
                 <<"ACTION:", "answer", "ACTION:", "perform_calculation">>,
                 <<"ACTION:", "\n", "send_email">>}

ReplyParams == {<<>>, <<"\n", "PARAMETERS:", " ", "{\"final_answer\":\"Paris\"}">>,
                <<"\n", "PARAMETERS:", "{\"query\":\"x\"}", "\n", "\n", "Paris">>,
                <<"\n", "PARAMETERS:", " ", "{oops">>,
                <<"\n", "PARAMETERS:", "{}", "\n">>}

ReplySuffixes == {<<>>, <<"\n">>, <<" ", "Paris">>}

ParseReplies ==
    {p \o a \o q \o s : p \in ReplyPrefixes, a \in ReplyActions,
                        q \in ReplyParams, s \in ReplySuffixes}
                        \cup {q \o a : q \in ReplyParams, a \in ReplyActions}


-----------------------------------------------------------------------------
(* The gateway as the planning engine sees it: one call, one Result. *)

\* The failure a gateway call ends with (MistralClient::chat's Err).
GatewayErrors == {<<"Rate limit exceeded. Please try again in a few minutes.">>}

Outcome(ok, text) == [ok |-> ok, text |-> text]

ChatOutcomes(replies) ==
    {Outcome(TRUE, r) : r \in replies} \cup {Outcome(FALSE, e) : e \in GatewayErrors}

Call(kind, out) == [kind |-> kind, ok |-> out.ok, text |-> out.text]

-----------------------------------------------------------------------------
(* Bounds and inputs *)

\* AgentConfig::default().max_steps
max_steps == 3

\* A run is explored until its thoughts list holds this many thoughts.
MaxThoughts == 7

\* The parser's wide exploration covers the first Thinking reply only.
ParseThoughts == 2

Queries ==
    {<<"h", "i">>,
     <<"H", "E", "Y">>,
     <<"t", "h", "i", "s">>,
     <<"H", "e", "l", "l", "o", " ", "y", "o", "u">>,
     <<"w", "h", "y">>,
     <<"h", "e", "l", "l", "o", " ", "t", "h", "e", "r", "e">>,
     <<"h", "i", " ", "U+00F1", "U+00F1", "U+00F1", "U+00F1", "U+00F1">>}

\* Replies to the next-step prompt.
ThinkReplies ==
    {<<>>,
     <<" ", "Paris", "\n">>,
     <<"<500 ASCII letters>">>,
     <<"ACTION:", " ", "answer", "\n", "PARAMETERS:", " ", "{\"final_answer\":\"Paris\"}">>,
     <<"ACTION:", " ", "answer", "\n", "PARAMETERS:", " ", "{\"final_answer\":42}">>,
     <<"ACTION:", " ", "answer">>,
     <<"ACTION:", " ", "search_information", "\n", "PARAMETERS:", " ", "{\"query\":\"x\"}">>,
     <<"ACTION:", " ", "send_email", "\n", "PARAMETERS:", " ", "{}">>}

\* Replies to a tool prompt, to the direct prompt and to the final-answer prompt.
ToolReplies == {<<"tool result">>}
DirectReplies == {<<"direct answer">>}
FinalReplies == {<<"summary answer">>}

-----------------------------------------------------------------------------
(* Thought, AgentAction, Observation.  Timestamps are never read and are left out;
   the id is a fresh value per constructor call. *)

Thought(id, content) == [id |-> id, content |-> content]

AgentAction(id, parse) ==
    [id |-> id, action_type |-> parse.action_type, parameters |-> parse.parameters]

Observation(id, content, action_id) ==
    [id |-> id, content |-> content, action_id |-> action_id]

\* Mutant: the contents collected newest first.
ObservationTextsReversed(obs) == [i \in 1..Len(obs) |-> obs[Len(obs) + 1 - i].content]

\* observations.iter().map(|o| o.content.clone()).collect()
ObservationTexts(obs) == [i \in 1..Len(obs) |-> obs[i].content]

Ok(answer, texts) == [tag |-> "Ok", answer |-> answer, observations |-> texts]

Err(message) == [tag |-> "Err", answer |-> message, observations |-> <<>>]

NoResult == [tag |-> "None", answer |-> <<>>, observations |-> <<>>]

-----------------------------------------------------------------------------
(* plan_and_execute: the greeting shortcut *)

GreetingWords == {<<"h", "e", "l", "l", "o">>, <<"h", "i">>, <<"h", "e", "y">>}

\* Mutant: the comparison without to_lowercase.
IsSimpleGreetingCaseSensitive(q) ==
    StrLen(q) < 10 /\ \E w \in GreetingWords : Contains(q, w)

IsSimpleGreeting(q) ==
    StrLen(q) < 10 /\ \E w \in GreetingWords : Contains(ToLowercase(q), w)

Greeting == <<"Hello! How can I assist you today?">>

-----------------------------------------------------------------------------
(* generate_partial_answer_from_observations *)

\* Mutant: the findings numbered from 0.
FindingLineFromZero(i, content) == <<"Finding ", ToString(i), ": ">> \o content \o <<"\n\n">>

FindingLine(i, content) == <<"Finding ", ToString(i + 1), ": ">> \o content \o <<"\n\n">>

\* The for loop: push one line per observation, i counting from 0.
RECURSIVE PushFindings(_, _, _)
PushFindings(answer, obs, i) ==
    IF i >= Len(obs) THEN answer
    ELSE PushFindings(answer \o FindingLine(i, obs[i + 1].content), obs, i + 1)

PartialAnswer(obs, q) ==
    PushFindings(<<"I encountered an issue while processing your question about '">>
                     \o q \o <<"', but here's what I found so far:\n\n">>, obs, 0)
        \o <<"\nI apologize that I couldn't complete the full analysis due to technical limitations.">>

generate_partial_answer_from_observations(obs, q) ==
    Ok(PartialAnswer(obs, q), ObservationTexts(obs))

-----------------------------------------------------------------------------
(* execute_action: out is the outcome of the gateway call, should one be made *)

ToolParam(action_type) ==
    IF action_type = <<"search_information">> THEN "query" ELSE "expression"

\* [ok, text, called]: the Result, and whether the gateway was called.
Executed(ok, text, called) == [ok |-> ok, text |-> text, called |-> called]

\* Mutant: an empty parameter is refused like a missing one.
execute_action_empty_refused(action, out) ==
    LET key == ToolParam(action.action_type)
        val == action.parameters.m[key]
    IN  IF action.action_type = <<"search_information">>
        THEN IF ~(HasKey(action.parameters, key) /\ IsStr(val)) \/ val.s = <<>>
             THEN Executed(FALSE, <<"No search query provided">>, FALSE)
             ELSE IF out.ok THEN Executed(TRUE, out.text, TRUE)
             ELSE Executed(FALSE, <<"Search error: ">> \o out.text, TRUE)
        ELSE IF action.action_type = <<"perform_calculation">>
        THEN IF ~(HasKey(action.parameters, key) /\ IsStr(val)) \/ val.s = <<>>
             THEN Executed(FALSE, <<"No calculation expression provided">>, FALSE)
             ELSE IF out.ok THEN Executed(TRUE, out.text, TRUE)
             ELSE Executed(FALSE, <<"Calculation error: ">> \o out.text, TRUE)
        ELSE Executed(FALSE, <<"Unsupported action: ">> \o action.action_type, FALSE)

execute_action(action, out) ==
    LET key == ToolParam(action.action_type)
        val == action.parameters.m[key]
    IN  IF action.action_type = <<"search_information">>
        THEN IF ~(HasKey(action.parameters, key) /\ IsStr(val))
             THEN Executed(FALSE, <<"No search query provided">>, FALSE)
             ELSE IF val.s = <<>>
             THEN Executed(TRUE, <<"No search query provided.">>, FALSE)
             ELSE IF out.ok THEN Executed(TRUE, out.text, TRUE)
             ELSE Executed(FALSE, <<"Search error: ">> \o out.text, TRUE)
        ELSE IF action.action_type = <<"perform_calculation">>
        THEN IF ~(HasKey(action.parameters, key) /\ IsStr(val))
             THEN Executed(FALSE, <<"No calculation expression provided">>, FALSE)
             ELSE IF val.s = <<>>
             THEN Executed(TRUE, <<"No calculation expression provided.">>, FALSE)
             ELSE IF out.ok THEN Executed(TRUE, out.text, TRUE)
             ELSE Executed(FALSE, <<"Calculation error: ">> \o out.text, TRUE)
        ELSE Executed(FALSE, <<"Unsupported action: ">> \o action.action_type, FALSE)

\* Mutant: the back-reference names the observation itself.
ObservationForSelf(id, res, action) ==
    Observation(id, IF res.ok THEN res.text ELSE <<"Error: ">> \o res.text, id)

\* The Observation the Acting arm records for an executor result.
ObservationFor(id, res, action) ==
    Observation(id, IF res.ok THEN res.text ELSE <<"Error: ">> \o res.text, action.id)

-----------------------------------------------------------------------------
(* generate_final_answer: out is the outcome of its gateway call *)

\* Mutant: the error text is returned in place of the fixed string.
generate_final_answer_raw(out) == out.text

generate_final_answer(out) ==
    IF out.ok THEN out.text
    ELSE <<"I wasn't able to find a complete answer to your question in the time available.">>

-----------------------------------------------------------------------------
(* MistralClient::chat and MistralEmbedding::embed_text (src/src/llm.rs) *)

MAX_RETRIES == 3

RETRY_DELAY_MS == 1000

\* A Result of a gateway call; None while the call has not returned.
GwOk(v) == [tag |-> "Ok", value |-> v]
GwErr(m) == [tag |-> "Err", value |-> m]
GwNone == [tag |-> "None", value |-> <<>>]

\* Option<String>
SomeText(s) == [some |-> TRUE, text |-> s]
NoText == [some |-> FALSE, text |-> <<>>]

\* What the provider answers to one request: a response with its completion
\* choices (chat) or its embeddings (embed), or an error with its text.
ProviderOk(choices, data) == [ok |-> TRUE, error |-> <<>>, choices |-> choices, data |-> data]
ProviderErr(e) == [ok |-> FALSE, error |-> e, choices |-> <<>>, data |-> <<>>]

ProviderOutcomes ==
    {ProviderOk(<<SomeText(<<"first">>), SomeText(<<"second">>)>>, <<<<1, 0>>, <<0, 1>>>>),
     ProviderOk(<<NoText>>, <<<<0, 0>>>>),
     ProviderOk(<<>>, <<>>),
     ProviderErr(<<"Requests ", "rate limit", " exceeded">>),
     ProviderErr(<<"invalid api key">>)}

\* One outcome more than a call can consume.
ScriptLen == MAX_RETRIES + 1

Scripts == [1..ScriptLen -> ProviderOutcomes]

\* The messages argument: each message with its role.
ChatMessage(role) == [role |-> role]

Histories ==
    {<<>>, <<ChatMessage("user")>>, <<ChatMessage("user"), ChatMessage("assistant")>>,
     <<ChatMessage("system")>>, <<ChatMessage("user"), ChatMessage("tool")>>,
     <<ChatMessage("function"), ChatMessage("user"), ChatMessage("system")>>}

NewCall == [pc |-> "idle", retries |-> 0, requests |-> 0, waits |-> <<>>, result |-> GwNone]

GatewayIdle ==
    /\ script = <<>>
    /\ messages = <<>>
    /\ chat_call = NewCall
    /\ embed_call = NewCall

\* Mutant: the system role is accepted in the history.
RoleSupportedWithSystem(role) == role \in {"user", "assistant", "system"}

\* match msg.role.as_str() { "user" => .., "assistant" => .., _ => return Err(..) }
RoleSupported(role) == role \in {"user", "assistant"}

\* The conversion loop over the messages: the first unsupported role ends the call.
ConvertMessages(msgs) ==
    LET bad == {i \in 1..Len(msgs) : ~RoleSupported(msgs[i].role)}
    IN  IF bad = {} THEN GwNone
        ELSE GwErr(<<"Unsupported message role: ",
                     msgs[CHOOSE i \in bad : \A j \in bad : i <= j].role>>)

\* Mutant: every error is taken for a rate limit.
IsRateLimitAlways(e) == TRUE

\* error_string.contains("rate limit") || error_string.contains("Requests rate limit exceeded")
IsRateLimit(e) ==
    \/ Contains(e, <<"rate limit">>)
    \/ Contains(e, <<"Requests ", "rate limit", " exceeded">>)

\* RETRY_DELAY_MS * (2_u64.pow(retries as u32))
Backoff(retries) == RETRY_DELAY_MS * (2 ^ retries)

Returned(call, res) == [call EXCEPT !.pc = "returned", !.result = res]

\* Mutant: the last choice is returned.
ChatOnSuccessLastChoice(call, out) ==
    IF out.choices = <<>> THEN Returned(call, GwErr(<<"No choices in response">>))
    ELSE Returned(call, GwOk(out.choices[Len(out.choices)].text))

\* Ok(response): the first choice's content, the empty text if it has none.
ChatOnSuccess(call, out) ==
    IF out.choices = <<>> THEN Returned(call, GwErr(<<"No choices in response">>))
    ELSE Returned(call, GwOk(out.choices[1].text))

\* Err(e) in chat: a rate limit is retried after the backoff while retries
\* stay below MAX_RETRIES; any other error breaks out of the loop.
ChatOnError(call, e) ==
    IF IsRateLimit(e)
    THEN IF call.retries + 1 < MAX_RETRIES
         THEN [call EXCEPT !.retries = call.retries + 1,
                           !.waits = Append(call.waits, Backoff(call.retries + 1))]
         ELSE Returned([call EXCEPT !.retries = call.retries + 1],
                       GwErr(<<"Rate limit exceeded. Please try again in a few minutes.">>))
    ELSE Returned(call, GwErr(<<"API error after ", ToString(call.retries), " retries: ">> \o e))

\* chat is called: the messages are converted before any request is made.
ChatCall ==
    /\ chat_call.pc = "idle"
    /\ \E msgs \in Histories :
          /\ messages' = msgs
          /\ chat_call' = IF ConvertMessages(msgs).tag = "Err"
                          THEN Returned(chat_call, ConvertMessages(msgs))
                          ELSE [chat_call EXCEPT !.pc = "request"]
    /\ UNCHANGED <<outside_llm, script, embed_call>>

\* One iteration of chat's while retries < MAX_RETRIES loop: a request and
\* the handling of its outcome.  The loop is only ever left from inside.
ChatRequest ==
    /\ chat_call.pc = "request"
    /\ chat_call.retries < MAX_RETRIES
    /\ chat_call.requests < Len(script)
    /\ LET out  == script[chat_call.requests + 1]
           sent == [chat_call EXCEPT !.requests = chat_call.requests + 1]
       IN  chat_call' = IF out.ok THEN ChatOnSuccess(sent, out)
                        ELSE ChatOnError(sent, out.error)
    /\ UNCHANGED <<outside_llm, script, messages, embed_call>>

\* Ok(response) in embed_text: the first embedding.
EmbedOnSuccess(call, out) ==
    IF out.data = <<>> THEN Returned(call, GwErr(<<"No embedding returned">>))
    ELSE Returned(call, GwOk(out.data[1]))

\* Mutant: embed_text gives up at the first rate limit.
EmbedOnErrorNoRetry(call, e) ==
    IF IsRateLimit(e)
    THEN Returned([call EXCEPT !.retries = call.retries + 1],
                  GwErr(<<"Rate limit exceeded. Please try again in a few minutes.">>))
    ELSE Returned(call, GwErr(<<"API error after ", ToString(call.retries), " retries: ">> \o e))

\* Err(e) in embed_text.
EmbedOnError(call, e) ==
    IF IsRateLimit(e)
    THEN IF call.retries + 1 < MAX_RETRIES
         THEN [call EXCEPT !.retries = call.retries + 1,
                           !.waits = Append(call.waits, Backoff(call.retries + 1))]
         ELSE Returned([call EXCEPT !.retries = call.retries + 1],
                       GwErr(<<"Rate limit exceeded. Please try again in a few minutes.">>))
    ELSE Returned(call, GwErr(<<"API error after ", ToString(call.retries), " retries: ">> \o e))

\* embed_text is called: the request is built, nothing can fail yet.
EmbedCall ==
    /\ embed_call.pc = "idle"
    /\ embed_call' = [embed_call EXCEPT !.pc = "request"]
    /\ UNCHANGED <<outside_llm, script, messages, chat_call>>

\* One iteration of embed_text's loop.
EmbedRequest ==
    /\ embed_call.pc = "request"
    /\ embed_call.retries < MAX_RETRIES
    /\ embed_call.requests < Len(script)
    /\ LET out  == script[embed_call.requests + 1]
           sent == [embed_call EXCEPT !.requests = embed_call.requests + 1]
       IN  embed_call' = IF out.ok THEN EmbedOnSuccess(sent, out)
                         ELSE EmbedOnError(sent, out.error)
    /\ UNCHANGED <<outside_llm, script, messages, chat_call>>

-----------------------------------------------------------------------------
(* MistralEmbedding::similarity (src/src/llm.rs) and cosine_similarity     *)
(* (src/src/memory.rs).  Components are integers; a quotient is kept as    *)
(* its numerator and the two sums of squares whose roots are multiplied in *)
(* its denominator, so that a division by zero shows in the result.        *)

\* The longest vector explored.
MaxDim == 2

Components == {-1, 0, 2}

Vectors == UNION {[1..n -> Components] : n \in 0..MaxDim}

\* iter().zip().map(|(x, y)| x * y).sum(), over the shorter of the two
RECURSIVE DotProduct(_, _, _)
DotProduct(a, b, i) ==
    IF i > Len(a) \/ i > Len(b) THEN 0 ELSE a[i] * b[i] + DotProduct(a, b, i + 1)

\* iter().map(|x| x * x).sum(): the square of the magnitude
SumSquares(a) == DotProduct(a, a, 1)

\* return 0.0
Zero == [num |-> 0, den |-> <<1, 1>>]

\* dot_product / (magnitude1 * magnitude2), the magnitudes being the roots of m1 and m2
Quotient(dot, m1, m2) == [num |-> dot, den |-> <<m1, m2>>]

NotComputed == [num |-> 0, den |-> <<>>]

\* MistralEmbedding::similarity
similarity(e1, e2) ==
    IF Len(e1) # Len(e2) \/ e1 = <<>> THEN Zero
    ELSE IF SumSquares(e1) = 0 \/ SumSquares(e2) = 0 THEN Zero
    ELSE Quotient(DotProduct(e1, e2, 1), SumSquares(e1), SumSquares(e2))

\* Mutant: the magnitudes are not tested before the division.
cosine_similarity_unguarded(a, b) ==
    IF Len(a) # Len(b) \/ a = <<>> THEN Zero
    ELSE Quotient(DotProduct(a, b, 1), SumSquares(a), SumSquares(b))

\* memory.rs: fn cosine_similarity
cosine_similarity(a, b) ==
    IF Len(a) # Len(b) \/ a = <<>> THEN Zero
    ELSE IF SumSquares(a) = 0 \/ SumSquares(b) = 0 THEN Zero
    ELSE Quotient(DotProduct(a, b, 1), SumSquares(a), SumSquares(b))

SimIdle ==
    /\ embedding1 = <<>>
    /\ embedding2 = <<>>
    /\ similarity_result = NotComputed
    /\ cosine_result = NotComputed

\* The gateway's similarity is applied to the pair.
Similarity ==
    /\ similarity_result = NotComputed
    /\ similarity_result' = similarity(embedding1, embedding2)
    /\ UNCHANGED <<outside_sim, embedding1, embedding2, cosine_result>>

\* The store's cosine_similarity is applied to the pair.
CosineSimilarity ==
    /\ cosine_result = NotComputed
    /\ cosine_result' = cosine_similarity(embedding1, embedding2)
    /\ UNCHANGED <<outside_sim, embedding1, embedding2, similarity_result>>

-----------------------------------------------------------------------------
(* MemoryStore (src/src/memory.rs): the memories table behind the mutex *)

\* The tasks that call the store, each in its own spawn_blocking closure.
Clients == {1, 2}

\* The store calls explored in one behaviour.
MaxStores == 3

\* Option::None, SQL NULL
Null == <<>>

\* chrono::Duration::days(1) in milliseconds
DayMs == 86400000

\* The instants (DateTime<Utc>) are milliseconds since 2024-01-01T00:00:00Z,
\* in the first minute of one of the first nine days of the year.
At(day, ms) == day * DayMs + ms

Digit(n) == ToString(n)

DigitValue(c) == CHOOSE n \in 0..9 : ToString(n) = c

\* DateTime<Utc>::to_rfc3339: the fraction is written only when it is not
\* zero (three digits for whole milliseconds), the offset is +00:00.
ToRfc3339(t) ==
    LET day == t \div DayMs
        sec == (t % DayMs) \div 1000
        ms  == t % 1000
    IN  <<"2024-01-0", Digit(1 + day), "T00:00:", Digit(sec \div 10), Digit(sec % 10)>>
        \o (IF ms = 0 THEN <<>>
            ELSE <<".", Digit(ms \div 100), Digit((ms \div 10) % 10), Digit(ms % 10)>>)
        \o <<"+", "00:00">>

\* DateTime::parse_from_rfc3339(..).map(|dt| dt.with_timezone(&Utc)) of a stored text
ParseRfc3339(text) ==
    (DigitValue(text[2]) - 1) * DayMs
    + (10 * DigitValue(text[4]) + DigitValue(text[5])) * 1000
    + (IF text[6] = "."
       THEN 100 * DigitValue(text[7]) + 10 * DigitValue(text[8]) + DigitValue(text[9])
       ELSE 0)

\* The bytes of the characters that tell two stored timestamps apart.
CharCode(c) ==
    CASE c = "+" -> 43
      [] c = "." -> 46
      [] OTHER -> 48 + DigitValue(c)

\* SQLite's BINARY collation on TEXT: memcmp, the shorter text first on a tie.
RECURSIVE TextLess(_, _)
TextLess(x, y) ==
    IF y = <<>> THEN FALSE
    ELSE IF x = <<>> THEN TRUE
    ELSE IF Head(x) = Head(y) THEN TextLess(Tail(x), Tail(y))
    ELSE CharCode(Head(x)) < CharCode(Head(y))

RECURSIVE Pow2(_)
Pow2(k) == IF k = 0 THEN 1 ELSE 2 * Pow2(k - 1)

RECURSIVE Log2(_)
Log2(n) == IF n < 2 THEN 0 ELSE 1 + Log2(n \div 2)

Abs(x) == IF x < 0 THEN -x ELSE x

\* The IEEE 754 binary32 fields of a float that is a small integer.
F32Fields(x) ==
    IF x = 0 THEN [sign |-> 0, exponent |-> 0, mantissa |-> 0]
    ELSE [sign     |-> IF x < 0 THEN 1 ELSE 0,
          exponent |-> 127 + Log2(Abs(x)),
          mantissa |-> (Abs(x) - Pow2(Log2(Abs(x)))) * Pow2(23 - Log2(Abs(x)))]

\* f32::to_le_bytes: the least significant byte first.
to_le_bytes(x) ==
    LET f == F32Fields(x)
    IN  <<f.mantissa % 256,
          (f.mantissa \div 256) % 256,
          (f.exponent % 2) * 128 + f.mantissa \div 65536,
          f.sign * 128 + f.exponent \div 2>>

\* Mutant: the chunk is read most significant byte first.
from_be_bytes(b) ==
    LET sign     == b[1] \div 128
        exponent == (b[1] % 128) * 2 + b[2] \div 128
        mantissa == (b[2] % 128) * 65536 + b[3] * 256 + b[4]
        whole    == IF exponent < 127 \/ exponent > 157 THEN 0
                    ELSE IF exponent >= 150
                    THEN (Pow2(23) + mantissa) * Pow2(exponent - 150)
                    ELSE (Pow2(23) + mantissa) \div Pow2(150 - exponent)
    IN  IF exponent = 0 /\ mantissa = 0 THEN 0
        ELSE IF sign = 1 THEN -whole ELSE whole

\* f32::from_le_bytes
from_le_bytes(b) ==
    LET sign     == b[4] \div 128
        exponent == (b[4] % 128) * 2 + b[3] \div 128
        mantissa == (b[3] % 128) * 65536 + b[2] * 256 + b[1]
        whole    == IF exponent >= 150
                    THEN (Pow2(23) + mantissa) * Pow2(exponent - 150)
                    ELSE (Pow2(23) + mantissa) \div Pow2(150 - exponent)
    IN  IF exponent = 0 /\ mantissa = 0 THEN 0
        ELSE IF sign = 1 THEN -whole ELSE whole

\* e.iter().flat_map(|&f| f.to_le_bytes().to_vec()).collect()
RECURSIVE FlatBytes(_)
FlatBytes(e) == IF e = <<>> THEN <<>> ELSE to_le_bytes(Head(e)) \o FlatBytes(Tail(e))

\* Some(e) and None are kept apart: an empty vector is not an absent one.
Some(v) == [some |-> TRUE, value |-> v]

None == [some |-> FALSE]

\* memory.embedding.as_ref().map(..)
EmbeddingBlob(embedding) ==
    IF embedding.some THEN Some(FlatBytes(embedding.value)) ELSE None

\* blob.chunks(4), a chunk that is not of 4 bytes is skipped
RECURSIVE Chunks(_)
Chunks(blob) ==
    IF blob = <<>> THEN <<>>
    ELSE IF Len(blob) < 4 THEN <<>>
    ELSE <<from_le_bytes(SubSeq(blob, 1, 4))>> \o Chunks(SubSeq(blob, 5, Len(blob)))

\* embedding_blob.map(|blob| ..)
DecodeEmbedding(blob) == IF blob.some THEN Some(Chunks(blob.value)) ELSE None

Memory(chat_id, user_id, timestamp, content, embedding, metadata) ==
    [id |-> Null, chat_id |-> chat_id, user_id |-> user_id, timestamp |-> timestamp,
     content |-> content, embedding |-> embedding, metadata |-> metadata]

\* The Memory values handed to store_memory under concurrent callers; id is None.
MemoryInputs ==
    {Memory(k[1], "u1", At(0, k[2]), c, None, None) :
        k \in {<<"c1", 1000>>, <<"c1", 2000>>, <<"c2", 1000>>}, c \in {"a", "b"}}

\* The row an INSERT writes for memory m under rowid id.
Row(id, m) ==
    [id |-> id, chat_id |-> m.chat_id, user_id |-> m.user_id,
     timestamp |-> ToRfc3339(m.timestamp), content |-> m.content,
     embedding |-> EmbeddingBlob(m.embedding), metadata |-> m.metadata]

\* UNIQUE(chat_id, user_id, timestamp): the rows that conflict with memory m.
Conflicting(rows, m) ==
    {r \in rows : r.chat_id = m.chat_id /\ r.user_id = m.user_id
                     /\ r.timestamp = ToRfc3339(m.timestamp)}

\* id INTEGER PRIMARY KEY without AUTOINCREMENT: one more than the largest rowid in use.
NewRowid(rows) ==
    IF rows = {} THEN 1
    ELSE 1 + CHOOSE n \in {r.id : r \in rows} : \A r \in rows : r.id <= n

\* Mutant: INSERT OR IGNORE, the row in place wins.
InsertOrIgnore(rows, m) ==
    IF Conflicting(rows, m) = {} THEN rows \cup {Row(NewRowid(rows), m)} ELSE rows

\* INSERT OR REPLACE: the conflicting rows are deleted and the new row is
\* inserted under a rowid chosen before the deletion.
InsertOrReplace(rows, m) == (rows \ Conflicting(rows, m)) \cup {Row(NewRowid(rows), m)}

\* The closure of query_map and query_row: the Memory read from a row.
FromRow(r) ==
    [id |-> r.id, chat_id |-> r.chat_id, user_id |-> r.user_id,
     timestamp |-> ParseRfc3339(r.timestamp), content |-> r.content,
     embedding |-> DecodeEmbedding(r.embedding), metadata |-> r.metadata]

\* get_memory: SELECT .. WHERE id = ?1, Null (Ok(None)) for no row.
get_memory(rows, id) ==
    IF \E r \in rows : r.id = id THEN FromRow(CHOOSE r \in rows : r.id = id) ELSE Null

NoReturn == [op |-> "none"]

\* A client's call of the store: its position, the memory of a
\* store_memory call, and the query of any other call.
Idle == [pc |-> "idle", memory |-> Null, call |-> NoReturn]

StoreMemory == [op |-> "store_memory"]

StoreIdle ==
    /\ db_rows = {}
    /\ last_insert_rowid = 0
    /\ db_lock = 0
    /\ ops = [p \in Clients |-> Idle]
    /\ store_log = <<>>
    /\ returned = NoReturn

\* store_memory is called: the closure is spawned and waits for the mutex.
StoreCall(p, m) ==
    /\ ops[p].pc = "idle"
    /\ Len(store_log)
         + Cardinality({q \in Clients : ops[q].pc # "idle" /\ ops[q].call = StoreMemory})
       < MaxStores
    /\ ops' = [ops EXCEPT ![p] = [pc |-> "waiting", memory |-> m, call |-> StoreMemory]]
    /\ UNCHANGED <<outside_store, db_rows, last_insert_rowid, db_lock, store_log, returned>>

\* Mutant: the closure takes the connection without waiting for the mutex.
StoreLockUnguarded(p) ==
    /\ ops[p].pc = "waiting"
    /\ db_lock' = p
    /\ ops' = [ops EXCEPT ![p].pc = "locked"]
    /\ UNCHANGED <<outside_store, db_rows, last_insert_rowid, store_log, returned>>

\* let conn = db.lock().unwrap(), the first statement of every closure
StoreLock(p) ==
    /\ ops[p].pc = "waiting"
    /\ db_lock = 0
    /\ db_lock' = p
    /\ ops' = [ops EXCEPT ![p].pc = "locked"]
    /\ UNCHANGED <<outside_store, db_rows, last_insert_rowid, store_log, returned>>

\* Mutant: the guard is dropped after the insert, before the rowid is read.
StoreInsertUnlocks(p) ==
    /\ ops[p].pc = "locked"
    /\ ops[p].call.op = "store_memory"
    /\ db_rows' = InsertOrReplace(db_rows, ops[p].memory)
    /\ last_insert_rowid' = NewRowid(db_rows)
    /\ db_lock' = 0
    /\ ops' = [ops EXCEPT ![p].pc = "inserted"]
    /\ UNCHANGED <<outside_store, store_log, returned>>

\* conn.execute("INSERT OR REPLACE INTO memories ..")
StoreInsert(p) ==
    /\ ops[p].pc = "locked"
    /\ ops[p].call.op = "store_memory"
    /\ db_rows' = InsertOrReplace(db_rows, ops[p].memory)
    /\ last_insert_rowid' = NewRowid(db_rows)
    /\ ops' = [ops EXCEPT ![p].pc = "inserted"]
    /\ UNCHANGED <<outside_store, db_lock, store_log, returned>>

\* Ok(conn.last_insert_rowid()): the id is returned and the guard is dropped.
StoreReturn(p) ==
    /\ ops[p].pc = "inserted"
    /\ store_log' = Append(store_log, [memory |-> ops[p].memory, id |-> last_insert_rowid])
    /\ db_lock' = 0
    /\ ops' = [ops EXCEPT ![p] = Idle]
    /\ UNCHANGED <<outside_store, db_rows, last_insert_rowid, returned>>

\* The Memory values handed to the store when it is queried afterwards: two
\* chats, two users, timestamps around one cutoff, two embeddings of one
\* direction, an empty and an absent embedding.
MemoryRecords ==
    { Memory("c1", "u1", At(1, 9000), "a", Some(<<2, 0>>), None),
      Memory("c1", "u1", At(1, 9500), "b", Some(<<3, 0>>), Some("{}")),
      Memory("c1", "u1", At(1, 10000), "a", Some(<<>>), None),
      Memory("c1", "u2", At(1, 9500), "a", None, None),
      Memory("c2", "u1", At(1, 9000), "b", Some(<<0, -1>>), None) }

Chats == {"c1", "c2"}

\* The limits of the queries.
Limits == 1..2

QueryEmbeddings == {<<2, 0>>}

\* Utc::now() when cleanup_old_memories runs, and the days it keeps.
Clock == {At(1, 9500)}

DaysToKeep == {0, 1}

Min(a, b) == IF a < b THEN a ELSE b

\* The orders in which a SELECT can deliver the rows of a set.
Orderings(rows) ==
    {f \in [1..Cardinality(rows) -> rows] : \A i, j \in DOMAIN f : f[i] = f[j] => i = j}

\* Mutant: ORDER BY timestamp ASC.
TimestampAsc(order) ==
    \A i, j \in DOMAIN order : i < j => ~TextLess(order[j].timestamp, order[i].timestamp)

\* ORDER BY timestamp DESC: no row comes before a row with a greater text.
TimestampDesc(order) ==
    \A i, j \in DOMAIN order : i < j => ~TextLess(order[i].timestamp, order[j].timestamp)

\* The rows get_recent_memories selects: WHERE chat_id = ?1
RecentRows(rows, chat_id) == {r \in rows : r.chat_id = chat_id}

RECURSIVE MapFromRow(_)
MapFromRow(order) ==
    IF order = <<>> THEN <<>> ELSE <<FromRow(Head(order))>> \o MapFromRow(Tail(order))

\* Mutant: the last row the statement delivers is dropped.
get_recent_memories_short(order, limit) ==
    MapFromRow(SubSeq(order, 1, Min(limit, Len(order)) - 1))

\* get_recent_memories: `order` is the order in which the statement
\* delivers the selected rows, LIMIT ?2 cuts it.
get_recent_memories(order, limit) == MapFromRow(SubSeq(order, 1, Min(limit, Len(order))))

\* The rows search_similar_memories selects: WHERE chat_id = ?1 AND embedding IS NOT NULL
SimilarRows(rows, chat_id) == {r \in rows : r.chat_id = chat_id /\ r.embedding.some}

\* f32's partial_cmp on two scores: x < y.  A score is num / sqrt(den[1] * den[2]).
ScoreLess(x, y) ==
    x.num * Abs(x.num) * y.den[1] * y.den[2] < y.num * Abs(y.num) * x.den[1] * x.den[2]

\* Mutant: an entry goes before the entries of its score.
RECURSIVE InsertBeforeTies(_, _)
InsertBeforeTies(sorted, e) ==
    IF sorted = <<>> THEN <<e>>
    ELSE IF ~ScoreLess(e[2], Head(sorted)[2]) THEN <<e>> \o sorted
    ELSE <<Head(sorted)>> \o InsertBeforeTies(Tail(sorted), e)

\* sort_by(|a, b| b.1.partial_cmp(&a.1)..) is stable: an entry goes behind
\* every entry that does not score lower.
RECURSIVE InsertByScore(_, _)
InsertByScore(sorted, e) ==
    IF sorted = <<>> THEN <<e>>
    ELSE IF ScoreLess(Head(sorted)[2], e[2]) THEN <<e>> \o sorted
    ELSE <<Head(sorted)>> \o InsertByScore(Tail(sorted), e)

\* for row in rows { .. memories_with_score.push((memory, similarity)) } and the sort
RECURSIVE Scored(_, _)
Scored(scan, query_embedding) ==
    IF scan = <<>> THEN <<>>
    ELSE LET memory == FromRow(scan[Len(scan)])
         IN  InsertByScore(Scored(SubSeq(scan, 1, Len(scan) - 1), query_embedding),
                           <<memory, cosine_similarity(query_embedding, memory.embedding.value)>>)

\* Mutant: entries that do not score above zero are dropped before the cut.
search_similar_memories_above_zero(scan, query_embedding, limit) ==
    LET sorted == SelectSeq(Scored(scan, query_embedding), LAMBDA e : e[2].num > 0)
    IN  SubSeq(sorted, 1, Min(limit, Len(sorted)))

\* search_similar_memories: `scan` is the order in which the statement
\* delivers the selected rows.
search_similar_memories(scan, query_embedding, limit) ==
    LET sorted == Scored(scan, query_embedding)
    IN  SubSeq(sorted, 1, Min(limit, Len(sorted)))

\* (Utc::now() - chrono::Duration::days(days_to_keep)).to_rfc3339()
CutoffDate(now, days_to_keep) == ToRfc3339(now - days_to_keep * DayMs)

\* Mutant: the rows at the cutoff are deleted as well.
OldRowsInclusive(rows, chat_id, cutoff_date) ==
    {r \in rows : r.chat_id = chat_id /\ ~TextLess(cutoff_date, r.timestamp)}

\* DELETE FROM memories WHERE chat_id = ?1 AND timestamp < ?2: the rows deleted
OldRows(rows, chat_id, cutoff_date) ==
    {r \in rows : r.chat_id = chat_id /\ TextLess(r.timestamp, cutoff_date)}

\* The closure of get_memory(id), from the lock to the drop of the guard.
GetMemoryClosure(id) ==
    /\ returned' = [op |-> "get_memory", id |-> id, value |-> get_memory(db_rows, id)]
    /\ db_rows' = db_rows

\* get_memory(id) by a task of its own: the closure runs under the mutex.
GetMemory(id) ==
    /\ db_lock = 0
    /\ GetMemoryClosure(id)
    /\ UNCHANGED <<outside_store, last_insert_rowid, db_lock, ops, store_log>>

\* The closure of get_recent_memories(chat_id, limit).
GetRecentClosure(chat_id, limit) ==
    /\ \E order \in Orderings(RecentRows(db_rows, chat_id)) :
          /\ TimestampDesc(order)
          /\ returned' = [op |-> "get_recent_memories", chat_id |-> chat_id, limit |-> limit,
                          value |-> get_recent_memories(order, limit)]
    /\ db_rows' = db_rows

\* get_recent_memories(chat_id, limit)
GetRecentMemories(chat_id, limit) ==
    /\ db_lock = 0
    /\ GetRecentClosure(chat_id, limit)
    /\ UNCHANGED <<outside_store, last_insert_rowid, db_lock, ops, store_log>>

\* The closure of search_similar_memories(chat_id, query_embedding, limit).
SearchSimilarClosure(chat_id, query_embedding, limit) ==
    /\ \E scan \in Orderings(SimilarRows(db_rows, chat_id)) :
          returned' = [op |-> "search_similar_memories", chat_id |-> chat_id,
                       query_embedding |-> query_embedding, limit |-> limit,
                       scan |-> MapFromRow(scan),
                       value |-> search_similar_memories(scan, query_embedding, limit)]
    /\ db_rows' = db_rows

\* search_similar_memories(chat_id, query_embedding, limit)
SearchSimilarMemories(chat_id, query_embedding, limit) ==
    /\ db_lock = 0
    /\ SearchSimilarClosure(chat_id, query_embedding, limit)
    /\ UNCHANGED <<outside_store, last_insert_rowid, db_lock, ops, store_log>>

\* The closure of cleanup_old_memories(chat_id, days_to_keep) when the
\* clock shows `now`.
CleanupClosure(chat_id, days_to_keep, now) ==
    LET deleted == OldRows(db_rows, chat_id, CutoffDate(now, days_to_keep))
    IN  /\ db_rows' = db_rows \ deleted
        /\ returned' = [op |-> "cleanup_old_memories", chat_id |-> chat_id,
                        cutoff |-> now - days_to_keep * DayMs,
                        value |-> Cardinality(deleted)]

\* cleanup_old_memories(chat_id, days_to_keep)
CleanupOldMemories(chat_id, days_to_keep, now) ==
    /\ db_lock = 0
    /\ CleanupClosure(chat_id, days_to_keep, now)
    /\ UNCHANGED <<outside_store, last_insert_rowid, db_lock, ops, store_log>>

\* The queries that run beside the stores when the mutex is examined.
QueryCalls ==
    {[op |-> "get_memory", id |-> 1],
     [op |-> "get_recent_memories", chat_id |-> "c1", limit |-> 2],
     [op |-> "search_similar_memories", chat_id |-> "c1", query_embedding |-> <<2, 0>>,
      limit |-> 2],
     [op |-> "cleanup_old_memories", chat_id |-> "c1", days_to_keep |-> 0,
      now |-> At(1, 9500)]}

\* A query is called: its closure is spawned and waits for the mutex.
QueryCall(p, call) ==
    /\ ops[p].pc = "idle"
    /\ ops' = [ops EXCEPT ![p] = [pc |-> "waiting", memory |-> Null, call |-> call]]
    /\ UNCHANGED <<outside_store, db_rows, last_insert_rowid, db_lock, store_log, returned>>

\* The closure of a query runs from the lock to its end, where the guard
\* is dropped.
QueryRun(p) ==
    /\ ops[p].pc = "locked"
    /\ LET c == ops[p].call
       IN  \/ c.op = "get_memory" /\ GetMemoryClosure(c.id)
           \/ c.op = "get_recent_memories" /\ GetRecentClosure(c.chat_id, c.limit)
           \/ /\ c.op = "search_similar_memories"
              /\ SearchSimilarClosure(c.chat_id, c.query_embedding, c.limit)
           \/ c.op = "cleanup_old_memories" /\ CleanupClosure(c.chat_id, c.days_to_keep, c.now)
    /\ db_lock' = 0
    /\ ops' = [ops EXCEPT ![p] = Idle]
    /\ UNCHANGED <<outside_store, last_insert_rowid, store_log>>

-----------------------------------------------------------------------------
(* MemoryCmd::recall_memory (src/src/commands/memory.rs) *)

\* The limit recall_memory passes to both queries.
RecallLimit == 5

\* What a call of the embedding model or of the store gave the command.
Gave(value) == [called |-> TRUE, ok |-> TRUE, value |-> value]

Failed == [called |-> TRUE, ok |-> FALSE, value |-> <<>>]

NotCalled == [called |-> FALSE, ok |-> FALSE, value |-> <<>>]

\* m.timestamp.format("%Y-%m-%d %H:%M")
FormatMinute(t) == <<"2024-01-0", Digit(1 + t \div DayMs), " 00:00">>

\* {:.2} of the scores the stored embeddings give: 0, 1 and -1.
FormatScore(score) ==
    IF score.num = 0 THEN <<"0.00">>
    ELSE IF score.num * score.num = score.den[1] * score.den[2]
         THEN (IF score.num < 0 THEN <<"-1.00">> ELSE <<"1.00">>)
    ELSE <<"0.", "..">>

\* "- [{}] (similarity: {:.2}): {}"
SimilarLine(entry) ==
    <<"- [">> \o FormatMinute(entry[1].timestamp) \o <<"] (similarity: ">>
        \o FormatScore(entry[2]) \o <<"): ", entry[1].content>>

\* "- [{}]: {}"
RecentLine(m) == <<"- [">> \o FormatMinute(m.timestamp) \o <<"]: ", m.content>>

\* Result<String, String>
RecallOk(reply) == [ok |-> TRUE, text |-> reply]

RecallErr(message) == [ok |-> FALSE, text |-> message]

\* memories.join("\n")
RECURSIVE Join(_)
Join(lines) ==
    IF lines = <<>> THEN <<>>
    ELSE IF Len(lines) = 1 THEN lines[1]
    ELSE lines[1] \o <<"\n">> \o Join(Tail(lines))

\* Mutant: an empty result of the search is reported as well.
SearchGaveAnything(search) == search.ok

\* Ok(results) if !results.is_empty()
SearchGaveResults(search) == search.ok /\ search.value # <<>>

\* The tail of recall_memory: the reply for the lines collected.
RecallReply(text, lines) ==
    IF lines = <<>>
    THEN RecallOk(<<"I don't have any relevant memories for that query.">>)
    ELSE RecallOk(<<"Here's what I remember about '">> \o text \o <<"':\n\n">> \o Join(lines))

\* recall_memory, given what its calls gave: the embedding model, then the
\* search if there is an embedding, then the recency query if the search
\* gave no result.
recall_memory(text, embedded, search, recent) ==
    IF embedded.ok /\ SearchGaveResults(search)
    THEN RecallReply(text, [i \in 1..Len(search.value) |-> SimilarLine(search.value[i])])
    ELSE IF recent.ok
         THEN RecallReply(text, [i \in 1..Len(recent.value) |-> RecentLine(recent.value[i])])
         ELSE RecallErr(<<"Failed to get recent memories: ", "storage error">>)

RecallQueries == {<<"q">>}

\* The results of embed_text the command can see.
EmbedResults == {Gave(<<2, 0>>), Failed}

\* One recall command: each call of the store runs under the mutex; a call
\* of the store can fail.
RecallMemory(chat_id, text, embedded, search_fails, recent_fails) ==
    /\ db_lock = 0
    /\ \E scan \in Orderings(SimilarRows(db_rows, chat_id)),
          order \in Orderings(RecentRows(db_rows, chat_id)) :
          /\ TimestampDesc(order)
          /\ LET search == IF ~embedded.ok THEN NotCalled
                           ELSE IF search_fails THEN Failed
                           ELSE Gave(search_similar_memories(scan, embedded.value, RecallLimit))
                 recent == IF embedded.ok /\ SearchGaveResults(search) THEN NotCalled
                           ELSE IF recent_fails THEN Failed
                           ELSE Gave(get_recent_memories(order, RecallLimit))
             IN  returned' = [op |-> "recall_memory", chat_id |-> chat_id, query |-> text,
                              embedded |-> embedded, search |-> search, recent |-> recent,
                              value |-> recall_memory(text, embedded, search, recent)]
    /\ UNCHANGED <<outside_store, db_rows, last_insert_rowid, db_lock, ops, store_log>>

\* Mutant: a failed embedding request leaves an empty embedding in the record.
CommandEmbeddingEmpty(embedded) ==
    IF embedded.ok THEN Some(embedded.value) ELSE Some(<<>>)

\* match embed_text(&content) { Ok(embed) => Some(embed), Err(e) => None }
CommandEmbedding(embedded) ==
    IF embedded.ok THEN Some(embedded.value) ELSE None

\* The Memory the store command builds: no id, the clock's time, no metadata.
CommandMemory(chat_id, user_id, content, embedded, now) ==
    Memory(chat_id, user_id, now, content, CommandEmbedding(embedded), None)

\* The tail of the store command: the reply for what the MemoryStore gave.
StoreReply(stored) ==
    IF stored.ok
    THEN RecallOk(<<"I've stored this information in my memory.">>)
    ELSE RecallErr(<<"Failed to store memory: ", "storage error">>)

\* One store command: the embedding request, then the write, which runs
\* under the mutex and can fail.
StoreMemoryCommand(chat_id, user_id, content, embedded, now, write_fails) ==
    /\ db_lock = 0
    /\ Len(store_log) < MaxStores
    /\ LET memory == CommandMemory(chat_id, user_id, content, embedded, now)
           stored == IF write_fails THEN Failed ELSE Gave(NewRowid(db_rows))
       IN  /\ IF write_fails
              THEN UNCHANGED <<db_rows, last_insert_rowid, store_log>>
              ELSE /\ db_rows' = InsertOrReplace(db_rows, memory)
                   /\ last_insert_rowid' = NewRowid(db_rows)
                   /\ store_log' = Append(store_log, [memory |-> memory, id |-> NewRowid(db_rows)])
           /\ returned' = [op |-> "store_command", chat_id |-> chat_id, user_id |-> user_id,
                           content |-> content, embedded |-> embedded, now |-> now,
                           stored |-> stored, value |-> StoreReply(stored)]
    /\ UNCHANGED <<outside_store, db_lock, ops>>

-----------------------------------------------------------------------------
(* build_message_history *)

\* serde_json::to_string_pretty of the parameters the actions carry.
PrettyJson(v) ==
    CASE v = EmptyObject -> <<"{}">>
      [] v = JObject([k \in {"query"} |-> JString(<<"x">>)]) -> <<"{\n  \"query\": \"x\"\n}">>
      [] v = JObject([k \in {"query"} |-> JString(<<>>)]) -> <<"{\n  \"query\": \"\"\n}">>
      [] v = JObject([k \in {"query"} |-> JNumber(7)]) -> <<"{\n  \"query\": 7\n}">>
      [] v = JObject([k \in {"expression"} |-> JString(<<"1+1">>)]) ->
             <<"{\n  \"expression\": \"1+1\"\n}">>
      [] v = JObject([k \in {"expression"} |-> JString(<<>>)]) ->
             <<"{\n  \"expression\": \"\"\n}">>
      [] OTHER -> <<"{..}">>

\* impl fmt::Display for AgentAction
DisplayAction(a) == <<"Action: ">> \o a.action_type \o <<"\nParameters: ">> \o PrettyJson(a.parameters)

Message(role, content) == [role |-> role, content |-> content]

\* The loop body for thought i: the thought, then the action and the
\* observation that have the same index, if there are any.
Entry(i, thoughts_, actions_, observations_) ==
    <<Message("assistant", <<"Thought ", ToString(i), ": ">> \o thoughts_[i].content)>>
    \o (IF i <= Len(actions_)
        THEN <<Message("assistant", <<"Action ", ToString(i), ": ">> \o DisplayAction(actions_[i]))>>
             \o (IF i <= Len(observations_)
                 THEN <<Message("user", <<"Observation ", ToString(i), ": ">>
                                            \o observations_[i].content)>>
                 ELSE <<>>)
        ELSE <<>>)

RECURSIVE Entries(_, _, _, _)
Entries(n, thoughts_, actions_, observations_) ==
    IF n = 0 THEN <<>>
    ELSE Entries(n - 1, thoughts_, actions_, observations_)
             \o Entry(n, thoughts_, actions_, observations_)

build_message_history(thoughts_, actions_, observations_) ==
    LET listed == Entries(Len(thoughts_), thoughts_, actions_, observations_)
    IN  Append(listed,
               Message("user",
                       IF listed = <<>>
                       THEN <<"What is your first step to solve this problem?">>
                       ELSE <<"What is your next step? You can either think more about the problem, take an action, or provide your final answer.">>))

-----------------------------------------------------------------------------
(* plan_and_execute *)

\* The locals of a plan_and_execute call that has not started.
Fresh ==
    [pc |-> "idle", query |-> <<>>, state |-> "Start", thoughts |-> <<>>, actions |-> <<>>,
     observations |-> <<>>, current_step |-> 0, final_answer |-> <<>>,
     consecutive_thinking_count |-> 0, result |-> NoResult, next_id |-> 1, calls |-> <<>>,
     think_run |-> 0, response |-> <<>>, parsed |-> NoAction, transcript |-> <<>>]

\* The locals of the call that runs.
Locals ==
    [pc |-> pc, query |-> query, state |-> state, thoughts |-> thoughts, actions |-> actions,
     observations |-> observations, current_step |-> current_step,
     final_answer |-> final_answer,
     consecutive_thinking_count |-> consecutive_thinking_count, result |-> result,
     next_id |-> next_id, calls |-> calls, think_run |-> think_run, response |-> response,
     parsed |-> parsed, transcript |-> transcript]

\* The call that runs gets these locals.
Resume(l) ==
    /\ pc' = l.pc
    /\ query' = l.query
    /\ state' = l.state
    /\ thoughts' = l.thoughts
    /\ actions' = l.actions
    /\ observations' = l.observations
    /\ current_step' = l.current_step
    /\ final_answer' = l.final_answer
    /\ consecutive_thinking_count' = l.consecutive_thinking_count
    /\ result' = l.result
    /\ next_id' = l.next_id
    /\ calls' = l.calls
    /\ think_run' = l.think_run
    /\ response' = l.response
    /\ parsed' = l.parsed
    /\ transcript' = l.transcript

\* Mutant: consecutive_thinking_count is one counter for both calls.
SwitchSharedCounter ==
    /\ suspended' = Locals
    /\ scheduled' = 3 - scheduled
    /\ Resume([suspended EXCEPT !.consecutive_thinking_count = consecutive_thinking_count])
    /\ UNCHANGED <<llm_vars, sim_vars, store_vars, remind_vars>>

\* Two plan_and_execute calls on one Agent: the other call runs on, each
\* call with its own locals (`let mut` in the function body).
Switch ==
    /\ suspended' = Locals
    /\ scheduled' = 3 - scheduled
    /\ Resume(suspended)
    /\ UNCHANGED <<llm_vars, sim_vars, store_vars, remind_vars>>

AgentIdle ==
    /\ pc = "idle"
    /\ query = <<>>
    /\ state = "Start"
    /\ thoughts = <<>>
    /\ actions = <<>>
    /\ observations = <<>>
    /\ current_step = 0
    /\ final_answer = <<>>
    /\ consecutive_thinking_count = 0
    /\ result = NoResult
    /\ next_id = 1
    /\ calls = <<>>
    /\ think_run = 0
    /\ response = <<>>
    /\ parsed = NoAction
    /\ transcript = <<>>
    /\ suspended = Fresh
    /\ scheduled = 1

(***************************************************************************)
(* commands/remindme.rs: the reminder counter                              *)
(***************************************************************************)

\* How many remindme commands are executed.
MaxReminders == 3

Executions == 1 .. MaxReminders

\* An execution that has not been called yet.
NotCalledYet == [pc |-> "idle", loaded |-> 0, reminder_id |-> 0]

\* static mut REMINDER_COUNTER: usize = 0, and no command executed.
RemindIdle ==
    /\ REMINDER_COUNTER = 0
    /\ reminders = [e \in Executions |-> NotCalledYet]

\* execute is called: the handlers run on the runtime's worker threads, so
\* several executions can be between their first and last statement at once.
RemindCall(e) ==
    /\ reminders[e].pc = "idle"
    /\ reminders' = [reminders EXCEPT ![e].pc = "start"]
    /\ UNCHANGED <<REMINDER_COUNTER, outside_remind>>

\* REMINDER_COUNTER += 1 on a plain static: the read of the counter ..
RemindLoad(e) ==
    /\ reminders[e].pc = "start"
    /\ reminders' = [reminders EXCEPT ![e].pc = "loaded", ![e].loaded = REMINDER_COUNTER]
    /\ UNCHANGED <<REMINDER_COUNTER, outside_remind>>

\* .. and the write of the value read plus one, with nothing ordering the two
\* against the other executions' accesses.
RemindStore(e) ==
    /\ reminders[e].pc = "loaded"
    /\ REMINDER_COUNTER' = reminders[e].loaded + 1
    /\ reminders' = [reminders EXCEPT ![e].pc = "stored"]
    /\ UNCHANGED outside_remind

\* The block's value REMINDER_COUNTER: the build may reload the static or keep
\* the value it has just written in a register.
RemindRead(e) ==
    /\ reminders[e].pc = "stored"
    /\ \E id \in {REMINDER_COUNTER, reminders[e].loaded + 1} :
           reminders' = [reminders EXCEPT ![e].pc = "done", ![e].reminder_id = id]
    /\ UNCHANGED <<REMINDER_COUNTER, outside_remind>>

\* The state after construction: no call has been made yet.
Init == AgentIdle /\ GatewayIdle /\ SimIdle /\ StoreIdle /\ RemindIdle

\* The call: the greeting shortcut returns at once, else the locals are set up.
Run(q) ==
    /\ pc = "idle"
    /\ query' = q
    /\ IF IsSimpleGreeting(q)
       THEN /\ pc' = "returned"
            /\ result' = Ok(Greeting, <<>>)
       ELSE /\ pc' = "loop"
            /\ result' = result
    /\ UNCHANGED <<outside_agent, transcript, state, thoughts, actions, observations, current_step, final_answer,
                   consecutive_thinking_count, next_id, calls, think_run, response, parsed>>

\* while current_step < self.config.max_steps && state != PlanningState::Finished
\* (the match arm for Finished is therefore never entered)
InLoop == pc = "loop" /\ current_step < max_steps /\ state # "Finished"

\* Mutant: the Start arm goes straight to Acting.
StartStepToActing ==
    /\ InLoop
    /\ state = "Start"
    /\ thoughts' = Append(thoughts,
           Thought(next_id, <<"I need to help answer the user's question: \"">> \o query
                            \o <<"\". Let me think about this step by step.">>))
    /\ next_id' = next_id + 1
    /\ state' = "Acting"
    /\ think_run' = 0
    /\ UNCHANGED <<outside_agent, transcript, pc, query, actions, observations, current_step, final_answer,
                   consecutive_thinking_count, result, calls, response, parsed>>

StartStep ==
    /\ InLoop
    /\ state = "Start"
    /\ thoughts' = Append(thoughts,
           Thought(next_id, <<"I need to help answer the user's question: \"">> \o query
                            \o <<"\". Let me think about this step by step.">>))
    /\ next_id' = next_id + 1
    /\ state' = "Thinking"
    /\ think_run' = 0
    /\ UNCHANGED <<outside_agent, transcript, pc, query, actions, observations, current_step, final_answer,
                   consecutive_thinking_count, result, calls, response, parsed>>

\* Mutant: the limit off by one.
TooManyThinkingOffByOne(count) == count > 6

\* if consecutive_thinking_count > 5
TooManyThinking(count) == count > 5

\* The fallback answer when no observation exists: out is the direct prompt's outcome.
DirectFallback(q, out) ==
    <<"I've thought about your question \"">> \o q \o <<"\" and here's my answer:\n\n">>
        \o (IF out.ok THEN out.text
            ELSE <<"I'm not able to provide a complete answer at this time. Please try asking your question differently.">>)

\* Mutant: the fallback always asks the model.
FallbackNeverFromObservations(obs) == FALSE

\* Whether the fallback answers from the observations (no gateway call).
FallbackFromObservations(obs) == obs # <<>>

\* Thinking, counter over the limit: the fallback answer, then Finished.
ThinkingFallback ==
    /\ InLoop
    /\ state = "Thinking"
    /\ TooManyThinking(consecutive_thinking_count + 1)
    /\ consecutive_thinking_count' = consecutive_thinking_count + 1
    /\ think_run' = think_run + 1
    /\ \E out \in ChatOutcomes(DirectReplies) :
          IF FallbackFromObservations(observations)
          THEN /\ final_answer' =
                      generate_partial_answer_from_observations(observations, query).answer
               /\ calls' = calls
          ELSE /\ final_answer' = DirectFallback(query, out)
               /\ calls' = Append(calls, Call("direct", out))
    /\ state' = "Finished"
    /\ UNCHANGED <<outside_agent, transcript, pc, query, thoughts, actions, observations, current_step, result,
                   next_id, response, parsed>>

\* Mutant: a failed next-step call is always an error.
ThinkingFailureAlwaysErr(obs, q, e) == Err(<<"Failed to get LLM response: ">> \o e)

\* What a failed next-step call makes plan_and_execute return.
ThinkingFailure(obs, q, e) ==
    IF obs # <<>> THEN generate_partial_answer_from_observations(obs, q)
    ELSE Err(<<"Failed to get LLM response: ">> \o e)

\* Thinking, the next-step call fails: plan_and_execute returns.
ThinkingError ==
    /\ InLoop
    /\ state = "Thinking"
    /\ ~TooManyThinking(consecutive_thinking_count + 1)
    /\ consecutive_thinking_count' = consecutive_thinking_count + 1
    /\ think_run' = think_run + 1
    /\ \E e \in GatewayErrors :
          /\ calls' = Append(calls, Call("next_step", Outcome(FALSE, e)))
          /\ result' = ThinkingFailure(observations, query, e)
    /\ pc' = "returned"
    /\ transcript' = build_message_history(thoughts, actions, observations)
    /\ UNCHANGED <<outside_agent, query, state, thoughts, actions, observations, current_step,
                   final_answer, next_id, response, parsed>>

\* final_answer = answer.as_str().unwrap_or("").to_string()
AnswerText(v) == IF IsStr(v) THEN v.s ELSE <<>>

\* Whether a parsed action resets consecutive_thinking_count.
ResetsThinkingCount(parse) == parse.some

\* Mutant: the omission is recorded as a plain thought of the model's reply.
OmissionThoughtEchoes(id) == Thought(id, <<"ACTION:", " ", "answer">>)

\* thoughts.push(Thought::new("I need to provide a clear answer".to_string()))
OmissionThought(id) == Thought(id, <<"I need to provide a clear answer">>)

\* Mutant: only an answer that carries final_answer is handled apart.
IsAnswerWithParameter(action) ==
    action.action_type = <<"answer">> /\ HasKey(action.parameters, "final_answer")

\* if action.action_type == "answer": the exit condition, handled apart from
\* the actions that are recorded and executed.
IsAnswer(action) == action.action_type = <<"answer">>

\* Thinking, the next-step call succeeds with reply r: parse it and branch.
ThinkingReply(r) ==
    LET action == parse_from_llm_response(r)
        count  == consecutive_thinking_count + 1
    IN  /\ calls' = Append(calls, Call("next_step", Outcome(TRUE, r)))
        /\ response' = r
        /\ parsed' = action
        /\ think_run' = think_run + 1
        /\ consecutive_thinking_count' = IF ResetsThinkingCount(action) THEN 0 ELSE count
        /\ IF action.some
           THEN IF IsAnswer(action)
                THEN IF HasKey(action.parameters, "final_answer")
                     THEN /\ final_answer' = AnswerText(action.parameters.m["final_answer"])
                          /\ state' = "Finished"
                          /\ thoughts' = Append(thoughts,
                                 Thought(next_id + 1, <<"I now have the answer: ">>
                                     \o AnswerText(action.parameters.m["final_answer"])))
                          /\ UNCHANGED actions
                     ELSE /\ thoughts' = Append(thoughts, OmissionThought(next_id + 1))
                          /\ UNCHANGED <<final_answer, state, actions>>
                ELSE /\ thoughts' = Append(thoughts,
                            Thought(next_id + 1, <<"I need to ">> \o action.action_type))
                     /\ actions' = Append(actions, AgentAction(next_id, action))
                     /\ state' = "Acting"
                     /\ UNCHANGED final_answer
           ELSE /\ thoughts' = Append(thoughts, Thought(next_id, r))
                /\ UNCHANGED <<final_answer, state, actions>>
        /\ next_id' = IF action.some THEN next_id + 2 ELSE next_id + 1
        /\ transcript' = build_message_history(thoughts, actions, observations)
        /\ UNCHANGED <<outside_agent, pc, query, observations, current_step, result>>

\* Thinking, counter within the limit: the model is asked for the next step.
ThinkingCall(replies, cap) ==
    /\ InLoop
    /\ state = "Thinking"
    /\ ~TooManyThinking(consecutive_thinking_count + 1)
    /\ Len(thoughts) < cap
    /\ \E r \in replies : ThinkingReply(r)

\* Acting: execute the last action; success and failure both record an Observation.
\* With no action to execute the arm falls back to Thinking.
ActingStep ==
    /\ InLoop
    /\ state = "Acting"
    /\ IF actions # <<>>
       THEN \E out \in ChatOutcomes(ToolReplies) :
               LET action == actions[Len(actions)]
                   res    == execute_action(action, out)
               IN  /\ observations' = Append(observations, ObservationFor(next_id, res, action))
                   /\ next_id' = next_id + 1
                   /\ calls' = IF res.called THEN Append(calls, Call("tool", out)) ELSE calls
                   /\ state' = "Observing"
       ELSE /\ state' = "Thinking"
            /\ UNCHANGED <<observations, next_id, calls>>
    /\ UNCHANGED <<outside_agent, transcript, pc, query, thoughts, actions, current_step, final_answer,
                   consecutive_thinking_count, result, think_run, response, parsed>>

\* Mutant: the Observing arm does not count the step.
ObservingStepNoCount ==
    /\ InLoop
    /\ state = "Observing"
    /\ state' = "Thinking"
    /\ think_run' = 0
    /\ UNCHANGED <<outside_agent, transcript, pc, query, thoughts, actions, observations, final_answer,
                   consecutive_thinking_count, result, next_id, calls, response, parsed,
                   current_step>>

ObservingStep ==
    /\ InLoop
    /\ state = "Observing"
    /\ state' = "Thinking"
    /\ current_step' = current_step + 1
    /\ think_run' = 0
    /\ UNCHANGED <<outside_agent, transcript, pc, query, thoughts, actions, observations, final_answer,
                   consecutive_thinking_count, result, next_id, calls, response, parsed>>

\* Mutant: the summary is generated whatever the state.
LoopExitAlwaysSummarises ==
    /\ pc = "loop"
    /\ ~InLoop
    /\ \E out \in ChatOutcomes(FinalReplies) :
          /\ final_answer' = generate_final_answer(out)
          /\ calls' = Append(calls, Call("final", out))
          /\ result' = Ok(generate_final_answer(out), ObservationTexts(observations))
    /\ pc' = "returned"
    /\ UNCHANGED <<outside_agent, transcript, query, state, thoughts, actions, observations, current_step,
                   consecutive_thinking_count, next_id, think_run, response, parsed>>

\* After the loop: the final answer if the state is not Finished, then the return.
LoopExit ==
    /\ pc = "loop"
    /\ ~InLoop
    /\ \E out \in ChatOutcomes(FinalReplies) :
          IF state # "Finished"
          THEN /\ final_answer' = generate_final_answer(out)
               /\ calls' = Append(calls, Call("final", out))
               /\ result' = Ok(generate_final_answer(out), ObservationTexts(observations))
          ELSE /\ UNCHANGED <<final_answer, calls>>
               /\ result' = Ok(final_answer, ObservationTexts(observations))
    /\ pc' = "returned"
    /\ UNCHANGED <<outside_agent, transcript, query, state, thoughts, actions, observations, current_step,
                   consecutive_thinking_count, next_id, think_run, response, parsed>>

Next ==
    \/ \E q \in Queries : Run(q)
    \/ StartStep
    \/ ThinkingFallback
    \/ ThinkingError
    \/ ThinkingCall(ThinkReplies, MaxThoughts)
    \/ ActingStep
    \/ ObservingStep
    \/ LoopExit

Spec == Init /\ [][Next]_vars

\* The first Thinking iteration alone, over the wide set of replies.
ParseNext ==
    \/ \E q \in {<<"w", "h", "y">>} : Run(q)
    \/ StartStep
    \/ ThinkingCall(ParseReplies, ParseThoughts)

ParseSpec == Init /\ [][ParseNext]_vars

\* A run is explored by the executor's specification until it holds this many thoughts.
ExecThoughts == 3

\* Replies that name a tool, with the parameter a string, empty, a number or absent.
ExecReplies ==
    {<<"ACTION:", " ", a, "\n", "PARAMETERS:", " ", p>> :
        a \in {"search_information", "perform_calculation", "send_email"},
        p \in {"{\"query\":\"x\"}", "{\"query\":\"\"}", "{\"query\":7}",
               "{\"expression\":\"1+1\"}", "{\"expression\":\"\"}", "{}"}}

\* Thinking, Acting and Observing over the replies that exercise the executor.
ExecNext ==
    \/ \E q \in {<<"w", "h", "y">>} : Run(q)
    \/ StartStep
    \/ ThinkingCall(ExecReplies, ExecThoughts)
    \/ ActingStep
    \/ ObservingStep

ExecSpec == Init /\ [][ExecNext]_vars

\* Each of two concurrent runs is explored until it holds this many thoughts.
TwoRunThoughts == 3

TwoRunReplies ==
    {<<" ", "Paris", "\n">>,
     <<"ACTION:", " ", "answer", "\n", "PARAMETERS:", " ", "{\"final_answer\":\"Paris\"}">>,
     <<"ACTION:", " ", "search_information", "\n", "PARAMETERS:", " ", "{\"query\":\"x\"}">>}

\* Two runs of one Agent, interleaved at any point.
TwoRunNext ==
    \/ \E q \in {<<"w", "h", "y">>, <<"h", "i">>} : Run(q)
    \/ StartStep
    \/ ThinkingError
    \/ ThinkingCall(TwoRunReplies, TwoRunThoughts)
    \/ ActingStep
    \/ ObservingStep
    \/ LoopExit
    \/ Switch

TwoRunSpec == Init /\ [][TwoRunNext]_vars

\* The gateways: a chat call and an embed_text call, each against a provider
\* that answers the i-th request of a call with the i-th outcome of the script.
GatewayInit ==
    /\ AgentIdle /\ SimIdle /\ StoreIdle /\ RemindIdle
    /\ script \in Scripts
    /\ messages = <<>>
    /\ chat_call = NewCall
    /\ embed_call = NewCall

GatewayNext ==
    \/ ChatCall
    \/ ChatRequest
    \/ EmbedCall
    \/ EmbedRequest

GatewaySpec == GatewayInit /\ [][GatewayNext]_vars

\* The two similarity functions, applied to every pair of vectors.
SimInit ==
    /\ AgentIdle /\ GatewayIdle /\ StoreIdle /\ RemindIdle
    /\ embedding1 \in Vectors
    /\ embedding2 \in Vectors
    /\ similarity_result = NotComputed
    /\ cosine_result = NotComputed

SimNext == Similarity \/ CosineSimilarity

SimSpec == SimInit /\ [][SimNext]_vars

\* The memory store under concurrent callers.
StoreNext ==
    \E p \in Clients :
        \/ \E m \in MemoryInputs : StoreCall(p, m)
        \/ StoreLock(p)
        \/ StoreInsert(p)
        \/ StoreReturn(p)

StoreSpec == Init /\ [][StoreNext]_vars

\* The task that writes the store when it is queried as well.
Writer == CHOOSE p \in Clients : \A q \in Clients : p <= q

\* The memory store written by one task and queried.
MemoryNext ==
    \/ \E m \in MemoryRecords : StoreCall(Writer, m)
    \/ StoreLock(Writer)
    \/ StoreInsert(Writer)
    \/ StoreReturn(Writer)
    \/ \E id \in 1..(MaxStores + 1) : GetMemory(id)
    \/ \E chat_id \in Chats, limit \in Limits : GetRecentMemories(chat_id, limit)
    \/ \E chat_id \in Chats, q \in QueryEmbeddings, limit \in Limits :
          SearchSimilarMemories(chat_id, q, limit)
    \/ \E chat_id \in Chats, days \in DaysToKeep, now \in Clock :
          CleanupOldMemories(chat_id, days, now)

MemorySpec == Init /\ [][MemoryNext]_vars

\* The store written by one task while recall commands run.
RecallNext ==
    \/ \E m \in MemoryRecords : StoreCall(Writer, m)
    \/ StoreLock(Writer)
    \/ StoreInsert(Writer)
    \/ StoreReturn(Writer)
    \/ \E chat_id \in Chats, text \in RecallQueries, embedded \in EmbedResults,
          search_fails \in BOOLEAN, recent_fails \in BOOLEAN :
          RecallMemory(chat_id, text, embedded, search_fails, recent_fails)

RecallSpec == Init /\ [][RecallNext]_vars

\* The Memory values stored beside the queries.
LockRecords ==
    { Memory("c1", "u1", At(1, 9000), "a", Some(<<2, 0>>), None),
      Memory("c1", "u1", At(1, 9000), "b", None, None),
      Memory("c1", "u1", At(1, 10000), "a", Some(<<3, 0>>), None) }

\* The store under concurrent stores and queries.
LockNext ==
    \E p \in Clients :
        \/ \E m \in LockRecords : StoreCall(p, m)
        \/ \E call \in QueryCalls : QueryCall(p, call)
        \/ StoreLock(p)
        \/ StoreInsert(p)
        \/ StoreReturn(p)
        \/ QueryRun(p)

LockSpec == Init /\ [][LockNext]_vars

\* The remindme command executed by several callers at once.
RemindNext ==
    \E e \in Executions :
        \/ RemindCall(e)
        \/ RemindLoad(e)
        \/ RemindStore(e)
        \/ RemindRead(e)

RemindSpec == Init /\ [][RemindNext]_vars

\* The Memory values stored beside the semantic queries: against the query
\* embedding <<2, 0>> they score 0, -1 and 1, and two carry no embedding.
SemanticRecords ==
    { Memory("c1", "u1", At(1, 9000), "a", Some(<<0, 1>>), None),
      Memory("c1", "u1", At(1, 9500), "b", Some(<<-1, 0>>), None),
      Memory("c1", "u2", At(1, 9000), "a", Some(<<2, 0>>), None),
      Memory("c1", "u1", At(1, 10000), "a", None, None),
      Memory("c2", "u1", At(1, 9000), "b", None, None) }

\* The store written by one task, searched, and recalled from with an
\* embedding of the query.
SemanticNext ==
    \/ \E m \in SemanticRecords : StoreCall(Writer, m)
    \/ StoreLock(Writer)
    \/ StoreInsert(Writer)
    \/ StoreReturn(Writer)
    \/ \E chat_id \in Chats, q \in QueryEmbeddings, limit \in Limits :
          SearchSimilarMemories(chat_id, q, limit)
    \/ \E chat_id \in Chats, text \in RecallQueries,
          embedded \in {e \in EmbedResults : e.ok}, search_fails \in BOOLEAN :
          RecallMemory(chat_id, text, embedded, search_fails, FALSE)

SemanticSpec == Init /\ [][SemanticNext]_vars

\* The store command, repeated, with the memories read back by id.
CommandNext ==
    \/ \E chat_id \in Chats, embedded \in EmbedResults,
          now \in {At(1, 9000), At(1, 9500)}, write_fails \in BOOLEAN :
          StoreMemoryCommand(chat_id, "u1", "a", embedded, now, write_fails)
    \/ \E id \in 1 .. MaxStores : GetMemory(id)

CommandSpec == Init /\ [][CommandNext]_vars

-----------------------------------------------------------------------------
(* Vocabulary of the properties *)

\* The tokens counted in characters; they differ from the bytes for non-ASCII text.
TokenChars ==
    [a \in DOMAIN TokenBytes |->
        CASE a = "U+00F1" -> 1
          [] a = "<300 x U+00E9>" -> 300
          [] OTHER -> TokenBytes[a]]

CharLen(a) == IF a \in DOMAIN TokenChars THEN TokenChars[a] ELSE 1

RECURSIVE SumChars(_, _)
SumChars(s, i) == IF i > Len(s) THEN 0 ELSE CharLen(s[i]) + SumChars(s, i + 1)

\* The length of a text in characters (s.chars().count()).
CharCount(s) == SumChars(s, 1)

CallsOfKind(kind) == {i \in 1..Len(calls) : calls[i].kind = kind}

LastCall == calls[Len(calls)]

\* The last gateway call was a next-step call that succeeded (resp. failed).
LastReplyIsNextStep == calls # <<>> /\ LastCall.kind = "next_step" /\ LastCall.ok

ThinkingCallFailed ==
    pc = "returned" /\ calls # <<>> /\ LastCall.kind = "next_step" /\ ~LastCall.ok

\* Every call so far succeeded and no next-step reply parsed as an action.
AllRepliesUnparsed ==
    /\ calls # <<>>
    /\ \A i \in 1..Len(calls) :
          /\ calls[i].ok
          /\ calls[i].kind = "next_step" => ~parse_from_llm_response(calls[i].text).some

\* The > 5 guard fired: nothing but the fallback leaves the counter above 5.
FallbackTaken == state = "Finished" /\ consecutive_thinking_count > 5

StepsExhausted == pc = "returned" /\ state # "Finished" /\ current_step = max_steps

\* The partial answer, spelled out: the prefix, Finding 1 .. Finding n, the disclaimer.
RECURSIVE Findings(_, _)
Findings(texts, n) ==
    IF n = 0 THEN <<>>
    ELSE Findings(texts, n - 1) \o <<"Finding ", ToString(n), ": ">> \o texts[n] \o <<"\n\n">>

ExpectedPartial ==
    <<"I encountered an issue while processing your question about '">> \o query
        \o <<"', but here's what I found so far:\n\n">>
        \o Findings([i \in 1..Len(observations) |-> observations[i].content],
                    Len(observations))
        \o <<"\nI apologize that I couldn't complete the full analysis due to technical limitations.">>

\* t is s with its leading and trailing whitespace removed.
IsTrimOf(t, s) ==
    /\ t = <<>> \/ (~IsWhitespace(t[1]) /\ ~IsWhitespace(t[Len(t)]))
    /\ \E i \in 1..(Len(s) + 1) :
          /\ i + Len(t) - 1 <= Len(s)
          /\ t = SubSeq(s, i, i + Len(t) - 1)
          /\ \A k \in 1..Len(s) : (k < i \/ k > i + Len(t) - 1) => IsWhitespace(s[k])

HasGreetingWord(q) ==
    \/ Contains(ToLowercase(q), <<"h", "e", "l", "l", "o">>)
    \/ Contains(ToLowercase(q), <<"h", "i">>)
    \/ Contains(ToLowercase(q), <<"h", "e", "y">>)

GreetingReturned ==
    /\ pc = "returned"
    /\ result = Ok(<<"Hello! How can I assist you today?">>, <<>>)
    /\ calls = <<>>
    /\ state = "Start"
    /\ thoughts = <<>> /\ actions = <<>> /\ observations = <<>>

-----------------------------------------------------------------------------
(* Properties *)

\* C1 (as claimed): run never loops forever.  The consecutive-thinking guard
\* ends every run of Thinking iterations: once Thinking has iterated 6 times
\* in a row without an action being executed, the run is Finished or has
\* returned, so a run makes at most max_steps such runs and then returns.
\* The code resets the counter on an `answer` reply without final_answer, and
\* a model that keeps sending it keeps the loop in Thinking past any count.
C1_GuardEndsThinking ==
    think_run >= 6 => (state = "Finished" \/ pc = "returned")

\* C2: when every reply fails to parse and every call succeeds, no more than
\* 5 next-step calls are made, and the run returns after exactly 5 of them,
\* Finished by the fallback taken on the 6th consecutive Thinking iteration.
C2_SixthThinkingFallsBack ==
    AllRepliesUnparsed =>
        /\ Cardinality(CallsOfKind("next_step")) <= 5
        /\ pc = "returned" =>
              /\ Cardinality(CallsOfKind("next_step")) = 5
              /\ think_run = 6
              /\ state = "Finished"
              /\ LastCall.kind = "direct"
              /\ result.tag = "Ok"

C2_Witness == AllRepliesUnparsed /\ pc = "returned"

\* C3 (as claimed): every query shorter than 10 characters that contains a
\* greeting word case-insensitively returns the canned greeting.
C3_GreetingByCharacters ==
    (pc # "idle" /\ CharCount(query) < 10 /\ HasGreetingWord(query)) => GreetingReturned

\* C3 (amended): every query shorter than 10 bytes (UTF-8) that contains
\* "hello", "hi" or "hey" case-insensitively returns the canned greeting with
\* an empty observation list, zero gateway calls and no planning state entered.
C3_GreetingShortcut ==
    (pc # "idle" /\ StrLen(query) < 10 /\ HasGreetingWord(query)) => GreetingReturned

C3_Witness == GreetingReturned /\ query = <<"H", "E", "Y">>

\* C4: a failed Thinking-state call returns at once: with observations, the
\* partial answer (prefix, Finding 1..n in creation order, disclaimer) and the
\* observation list; without observations, the failure.
C4_ThinkingFailure ==
    ThinkingCallFailed =>
        IF observations # <<>>
        THEN /\ result.tag = "Ok"
             /\ result.answer = ExpectedPartial
             /\ result.observations = [i \in 1..Len(observations) |-> observations[i].content]
        ELSE result.tag = "Err"

C4_Witness == ThinkingCallFailed /\ Len(observations) = 2

\* C5: when the consecutive-thinking counter exceeds 5 the state becomes
\* Finished and run returns Ok: with observations the answer is the partial
\* answer and no direct call is made; without, exactly one direct call is
\* made and the answer ends with its reply or, if it failed, the apology.
C5_FallbackAnswer ==
    FallbackTaken =>
        /\ IF observations # <<>>
           THEN /\ final_answer = ExpectedPartial
                /\ CallsOfKind("direct") = {}
                /\ LastCall.kind = "next_step"
           ELSE /\ Cardinality(CallsOfKind("direct")) = 1
                /\ LastCall.kind = "direct"
                /\ final_answer =
                       <<"I've thought about your question \"">> \o query
                           \o <<"\" and here's my answer:\n\n">>
                           \o (IF LastCall.ok THEN LastCall.text
                               ELSE <<"I'm not able to provide a complete answer at this time. Please try asking your question differently.">>)
        /\ pc = "returned" => (result.tag = "Ok" /\ result.answer = final_answer)

C5_Witness == FallbackTaken /\ pc = "returned" /\ observations # <<>>

\* C6: when the loop ends at max_steps without Finished, exactly one more
\* call (the final-answer call) is made, last; run returns Ok with its reply,
\* or with the fixed string if it failed.  No other return makes that call.
C6_StepExhaustion ==
    /\ StepsExhausted =>
          /\ Cardinality(CallsOfKind("final")) = 1
          /\ LastCall.kind = "final"
          /\ result.tag = "Ok"
          /\ result.answer =
                 (IF LastCall.ok THEN LastCall.text
                  ELSE <<"I wasn't able to find a complete answer to your question in the time available.">>)
    /\ ~StepsExhausted => CallsOfKind("final") = {}

C6_Witness == StepsExhausted /\ ~LastCall.ok

\* C7: every step taken in Acting appends exactly one Observation that
\* refers to the executed (last) action, moves to Observing and keeps the
\* run going; a failed executor leaves an error description as its content.
C7_ActingObserves ==
    [][(pc = "loop" /\ state = "Acting") =>
          /\ pc' = "loop" /\ state' = "Observing" /\ result' = result
          /\ actions' = actions
          /\ Len(observations') = Len(observations) + 1
          /\ SubSeq(observations', 1, Len(observations)) = observations
          /\ observations'[Len(observations')].action_id = actions[Len(actions)].id
          /\ (calls' # calls /\ ~calls'[Len(calls')].ok) =>
                 observations'[Len(observations')].content =
                     <<"Error: ", "Search error: ">> \o calls'[Len(calls')].text
          /\ actions[Len(actions)].action_type
                 \notin {<<"search_information">>, <<"perform_calculation">>} =>
                 observations'[Len(observations')].content =
                     <<"Error: ", "Unsupported action: ">> \o actions[Len(actions)].action_type
      ]_vars

C7_Witness ==
    /\ state = "Observing"
    /\ observations[Len(observations)].content[1] = "Error: "
    /\ observations[Len(observations)].action_id = actions[Len(actions)].id

\* C8: on every Ok return the observation list is the content of every
\* Observation of the session, once each, in creation order.
C8_ObservationsReturned ==
    (pc = "returned" /\ result.tag = "Ok") =>
        /\ Len(result.observations) = Len(observations)
        /\ \A i \in 1..Len(observations) : result.observations[i] = observations[i].content
        /\ \A i, j \in 1..Len(observations) : i < j => observations[i].id < observations[j].id

C8_Witness ==
    /\ ThinkingCallFailed
    /\ Len(result.observations) = 2
    /\ result.observations[1] # result.observations[2]

\* C9 (as claimed): when the reply parses as an `answer` action with a
\* final_answer parameter, run returns the value of that parameter.
C9_ReturnsFinalAnswerValue ==
    (pc = "returned" /\ LastReplyIsNextStep /\ parsed.some
        /\ parsed.action_type = <<"answer">> /\ HasKey(parsed.parameters, "final_answer")) =>
        /\ result.tag = "Ok"
        /\ result.answer = parsed.parameters.m["final_answer"].s

\* C10 (as claimed): a reply with no ACTION: marker, shorter than 500
\* characters and with no PARAMETERS: marker parses as an `answer` action.
C10_ImplicitAnswerByCharacters ==
    (LastReplyIsNextStep /\ ~Contains(response, <<"ACTION:">>)
        /\ CharCount(response) < 500 /\ ~Contains(response, <<"PARAMETERS:">>)) =>
        (parsed.some /\ parsed.action_type = <<"answer">>)

\* C10 (amended): a reply with no ACTION: marker parses, if it is shorter
\* than 500 bytes (UTF-8) and has no PARAMETERS: marker, as an `answer` action
\* whose final_answer is the trimmed reply; otherwise it parses as no action
\* and is recorded as a plain Thought.
C10_ImplicitAnswer ==
    (LastReplyIsNextStep /\ ~Contains(response, <<"ACTION:">>)) =>
        IF StrLen(response) < 500 /\ ~Contains(response, <<"PARAMETERS:">>)
        THEN /\ parsed.some
             /\ parsed.action_type = <<"answer">>
             /\ HasKey(parsed.parameters, "final_answer")
             /\ parsed.parameters.m["final_answer"].t = "string"
             /\ IsTrimOf(parsed.parameters.m["final_answer"].s, response)
        ELSE /\ ~parsed.some
             /\ thoughts[Len(thoughts)].content = response
             /\ actions = <<>>
             /\ state = "Thinking"

C10_Witness ==
    /\ LastReplyIsNextStep
    /\ ~Contains(response, <<"ACTION:">>)
    /\ parsed.some
    /\ parsed.parameters.m["final_answer"].s # <<>>
    /\ Len(parsed.parameters.m["final_answer"].s) < Len(response)

-----------------------------------------------------------------------------
(* Vocabulary of the parser's properties *)

\* pat occurs in s at index i.
OccursAt(s, pat, i) == i + Len(pat) - 1 <= Len(s) /\ SubSeq(s, i, i + Len(pat) - 1) = pat

\* The text of s after the first occurrence of pat.
After(s, pat) == SubSeq(s, Find(s, pat) + Len(pat), Len(s))

\* s up to (not including) the first occurrence of pat, all of s if there is none.
UpTo(s, pat) == IF Contains(s, pat) THEN SubSeq(s, 1, Find(s, pat) - 1) ELSE s

\* The text between the first PARAMETERS: marker and the next blank line, trimmed.
ParamsBlock(resp) == Trim(UpTo(After(resp, <<"PARAMETERS:">>), <<"\n", "\n">>))

\* The parameters of the parsed action are what the PARAMETERS: block parses to.
ParametersFromBlock ==
    (Contains(response, <<"PARAMETERS:">>) /\ JsonOk(ParamsBlock(response))) =>
        parsed.parameters = JsonValue(ParamsBlock(response))

\* The reply of the example: ACTION: search_information / PARAMETERS: {"query":"x"}.
ExampleParsed ==
    response = <<"ACTION:", "search_information", "\n", "PARAMETERS:", "{\"query\":\"x\"}",
                 "\n", "\n", "Paris">> =>
        /\ parsed.action_type = <<"search_information">>
        /\ parsed.parameters = JObject([k \in {"query"} |-> JString(<<"x">>)])

\* C11 (as claimed): for every reply containing ACTION:, the action_type is
\* the trimmed text from just after the first ACTION: marker up to the next
\* newline, and the parameters are the object parsed from the text between
\* the PARAMETERS: marker and the next blank line.
C11_NameUpToNextNewline ==
    (LastReplyIsNextStep /\ Contains(response, <<"ACTION:">>)) =>
        /\ parsed.some
        /\ parsed.action_type = Trim(UpTo(After(response, <<"ACTION:">>), <<"\n">>))
        /\ ParametersFromBlock
        /\ ExampleParsed

\* C11 (amended): for every reply containing ACTION:, the action_type is the
\* trimmed first line of the trimmed segment that runs from just after the
\* first ACTION: marker to the next ACTION: marker or the end of the reply
\* (whitespace and newlines right after the marker are skipped), and the
\* parameters are the value parsed from the text between the first
\* PARAMETERS: marker and the next blank line.
C11_ActionFromReply ==
    (LastReplyIsNextStep /\ Contains(response, <<"ACTION:">>)) =>
        /\ parsed.some
        /\ parsed.action_type =
               Trim(UpTo(Trim(UpTo(After(response, <<"ACTION:">>), <<"ACTION:">>)), <<"\n">>))
        /\ ParametersFromBlock
        /\ ExampleParsed

\* A reply whose action name follows the marker on the next line, with a
\* PARAMETERS: block that parses.
C11_Witness ==
    /\ LastReplyIsNextStep
    /\ OccursAt(response, <<"ACTION:", "\n", "send_email">>, 1)
    /\ parsed.action_type = <<"send_email">>
    /\ parsed.parameters = JObject([k \in {"query"} |-> JString(<<"x">>)])

\* The reply has no PARAMETERS: block, or its block is not a JSON document.
NoParsableParameters ==
    ~Contains(response, <<"PARAMETERS:">>) \/ ~JsonOk(ParamsBlock(response))

\* The loop goes on with the parsed action: nothing was returned, and the
\* action is the next one to execute (an `answer` is handled in Thinking).
LoopContinuesWithAction ==
    /\ pc = "loop"
    /\ result = NoResult
    /\ IF parsed.action_type = <<"answer">>
       THEN state \in {"Thinking", "Finished"}
       ELSE /\ state = "Acting"
            /\ actions # <<>>
            /\ actions[Len(actions)].action_type = parsed.action_type
            /\ actions[Len(actions)].parameters = parsed.parameters

\* C12: parsing a reply that contains ACTION: never fails.  If the
\* PARAMETERS: block is missing or does not parse, the action is still
\* produced, with the empty object as its parameters, and the planning loop
\* continues with that action.
C12_ParseNeverFails ==
    (LastReplyIsNextStep /\ Contains(response, <<"ACTION:">>)) =>
        /\ parsed.some
        /\ NoParsableParameters => parsed.parameters = EmptyObject
        /\ LoopContinuesWithAction

\* A reply with an action and a PARAMETERS: block that is not JSON.
C12_Witness ==
    /\ LastReplyIsNextStep
    /\ Contains(response, <<"ACTION:">>)
    /\ Contains(response, <<"PARAMETERS:", " ", "{oops">>)
    /\ parsed.parameters = EmptyObject
    /\ state = "Acting"

-----------------------------------------------------------------------------
(* Vocabulary of the executor's properties *)

\* The action the Acting arm is about to execute, and its tool parameter.
ActingOn(action_type) ==
    /\ InLoop
    /\ state = "Acting"
    /\ actions # <<>>
    /\ actions[Len(actions)].action_type = <<action_type>>

ParamIs(key, nonempty) ==
    LET p == actions[Len(actions)].parameters
    IN  /\ HasKey(p, key)
        /\ p.m[key].t = "string"
        /\ (p.m[key].s # <<>>) = nonempty

\* The executor returned this text as a success, without a gateway call.
ReturnedWithoutCall(text) ==
    /\ calls' = calls
    /\ observations'[Len(observations')].content = <<text>>

\* The executor made one gateway call and returned its result: the reply on
\* success, the gateway's error under the tool's prefix on failure.
ReturnedTheCall(prefix) ==
    /\ Len(calls') = Len(calls) + 1
    /\ SubSeq(calls', 1, Len(calls)) = calls
    /\ calls'[Len(calls')].kind = "tool"
    /\ observations'[Len(observations')].content =
          IF calls'[Len(calls')].ok THEN calls'[Len(calls')].text
          ELSE <<"Error: ", prefix>> \o calls'[Len(calls')].text

\* C13: execute for search_information with an empty query (resp.
\* perform_calculation with an empty expression) returns the explanatory
\* "no query/expression provided" text as a success and makes no gateway
\* call; with a non-empty string it makes exactly one gateway call and
\* returns its result.
C13_EmptyParameterIsNoError ==
    [][/\ (ActingOn("search_information") /\ ParamIs("query", FALSE)) =>
              ReturnedWithoutCall("No search query provided.")
       /\ (ActingOn("perform_calculation") /\ ParamIs("expression", FALSE)) =>
              ReturnedWithoutCall("No calculation expression provided.")
       /\ (ActingOn("search_information") /\ ParamIs("query", TRUE)) =>
              ReturnedTheCall("Search error: ")
       /\ (ActingOn("perform_calculation") /\ ParamIs("expression", TRUE)) =>
              ReturnedTheCall("Calculation error: ")]_vars

\* Both cases were executed in one run: an empty expression, then a query.
C13_Witness ==
    /\ state = "Observing"
    /\ Len(observations) = 2
    /\ observations[1].content = <<"No calculation expression provided.">>
    /\ observations[2].content = <<"tool result">>
    /\ Len(calls) = 3

-----------------------------------------------------------------------------
(* Vocabulary of the gateways' properties *)

\* The provider failed the i-th request with an error that names a rate limit.
RateLimited(i) == ~script[i].ok /\ Contains(script[i].error, <<"rate limit">>)

RateLimitExceeded ==
    GwErr(<<"Rate limit exceeded. Please try again in a few minutes.">>)

IsUnsupportedRole(res) ==
    /\ res.tag = "Err"
    /\ \E i \in 1..Len(messages) :
          /\ messages[i].role \notin {"user", "assistant"}
          /\ res.value = <<"Unsupported message role: ", messages[i].role>>

HistoryAccepted == \A i \in 1..Len(messages) : messages[i].role \in {"user", "assistant"}

\* success, RateLimitExceeded or provider error
OutcomeClass(res) ==
    IF res.tag = "Ok" THEN "success"
    ELSE IF res = RateLimitExceeded THEN "RateLimitExceeded"
    ELSE "provider error"

\* C14: one chat call issues at most 3 provider requests; a failed request is
\* followed by another one only if its error names a rate limit and fewer
\* than 3 requests have been made; any other error, also after rate-limit
\* retries, ends the call with a failure at once.
C14_AtMostThreeRequests ==
    /\ chat_call.requests <= 3
    /\ \A i \in 1..(chat_call.requests - 1) : RateLimited(i)
    /\ \A i \in 1..chat_call.requests :
          (~script[i].ok /\ ~RateLimited(i)) =>
              /\ i = chat_call.requests
              /\ chat_call.pc = "returned"
              /\ chat_call.result.tag = "Err"
    /\ (chat_call.requests = 3 /\ ~script[3].ok) =>
          (chat_call.pc = "returned" /\ chat_call.result.tag = "Err")

\* Two rate limits, then another error: the call has failed after the third request.
C14_Witness ==
    /\ chat_call.pc = "returned"
    /\ chat_call.requests = 3
    /\ RateLimited(1) /\ RateLimited(2)
    /\ ~script[3].ok /\ ~RateLimited(3)
    /\ chat_call.result.tag = "Err"

\* C15: a chat call whose every request fails with a rate limit fails with
\* RateLimitExceeded after exactly 3 requests; a call whose k-th request
\* succeeds after k-1 rate-limit failures returns the content of the first
\* choice of that k-th response.
C15_ExhaustionAndSuccess ==
    /\ (chat_call.pc = "returned" /\ chat_call.requests >= 1) =>
          LET k == chat_call.requests
          IN  /\ (\A i \in 1..k : RateLimited(i)) =>
                     (k = 3 /\ chat_call.result = RateLimitExceeded)
              /\ (script[k].ok /\ script[k].choices # <<>>) =>
                     /\ k \in 1..3
                     /\ \A i \in 1..(k - 1) : RateLimited(i)
                     /\ chat_call.result =
                            GwOk(IF script[k].choices[1].some
                                 THEN script[k].choices[1].text ELSE <<>>)
    /\ (chat_call.pc = "request" /\ \A i \in 1..chat_call.requests : RateLimited(i)) =>
          chat_call.requests < 3

\* The third request succeeds, with two choices, after two rate limits.
C15_Witness ==
    /\ chat_call.pc = "returned"
    /\ chat_call.requests = 3
    /\ RateLimited(1) /\ RateLimited(2)
    /\ Len(script[3].choices) = 2
    /\ chat_call.result = GwOk(<<"first">>)

\* C16: chat fails with UnsupportedRole whenever a message of the history has
\* a role other than "user" or "assistant", and then no provider request is
\* issued; a history with only those two roles never fails with it.
C16_UnsupportedRole ==
    /\ chat_call.pc # "idle" =>
          IF HistoryAccepted
          THEN /\ ~IsUnsupportedRole(chat_call.result)
               /\ chat_call.result.tag = "Err" => chat_call.requests >= 1
          ELSE /\ chat_call.pc = "returned"
               /\ IsUnsupportedRole(chat_call.result)
               /\ chat_call.requests = 0

\* A history whose second message has the role "tool".
C16_Witness ==
    /\ chat_call.pc = "returned"
    /\ Len(messages) = 2
    /\ messages[1].role = "user"
    /\ chat_call.result = GwErr(<<"Unsupported message role: ", "tool">>)
    /\ chat_call.requests = 0

\* C17: embed_text follows the same retry state machine as chat.  Against the
\* same sequence of provider outcomes, a chat call whose history is accepted
\* and an embed_text call issue the same number of requests, wait the same
\* backoff delays and end in the same outcome class.
C17_SameRetryMachine ==
    /\ (chat_call.pc = "returned" /\ embed_call.pc = "returned" /\ HistoryAccepted) =>
          /\ chat_call.requests = embed_call.requests
          /\ chat_call.waits = embed_call.waits
          /\ OutcomeClass(chat_call.result) = OutcomeClass(embed_call.result)
    /\ (chat_call.pc = "request" /\ embed_call.pc = "request"
            /\ chat_call.requests = embed_call.requests) =>
          (chat_call.waits = embed_call.waits /\ chat_call.retries = embed_call.retries)

\* Both calls waited twice and then ran out of retries.
C17_Witness ==
    /\ chat_call.pc = "returned" /\ embed_call.pc = "returned"
    /\ Len(embed_call.waits) = 2
    /\ chat_call.waits = embed_call.waits
    /\ embed_call.result = RateLimitExceeded
    /\ chat_call.result = RateLimitExceeded

-----------------------------------------------------------------------------
(* Vocabulary of the similarity and store properties *)

ZeroMagnitude(v) == \A i \in 1..Len(v) : v[i] = 0

BothComputed == similarity_result # NotComputed /\ cosine_result # NotComputed

\* The result is a division whose denominator is zero.
DividesByZero(r) == \E i \in 1..Len(r.den) : r.den[i] = 0

\* C18: similarity returns exactly 0 whenever the two vectors differ in
\* length, either is empty or either has zero magnitude; it never divides by
\* zero; and the store's cosine_similarity and the gateway's similarity
\* return the same result for every pair of vectors.
C18_SimilarityZeroCases ==
    BothComputed =>
        /\ (\/ Len(embedding1) # Len(embedding2)
            \/ embedding1 = <<>> \/ embedding2 = <<>>
            \/ ZeroMagnitude(embedding1) \/ ZeroMagnitude(embedding2)) =>
               (similarity_result = Zero /\ cosine_result = Zero)
        /\ ~DividesByZero(similarity_result)
        /\ ~DividesByZero(cosine_result)
        /\ similarity_result = cosine_result

\* Two vectors of the same length, the first of zero magnitude.
C18_Witness ==
    /\ BothComputed
    /\ embedding1 = <<0, 0>>
    /\ embedding2 = <<2, -1>>
    /\ cosine_result = Zero

SameTriple(r, m) ==
    /\ r.chat_id = m.chat_id
    /\ r.user_id = m.user_id
    /\ r.timestamp = ToRfc3339(m.timestamp)

\* At most one row for each (chat_id, user_id, timestamp).
UniqueTriples(rows) ==
    \A r1, r2 \in rows :
        (r1.chat_id = r2.chat_id /\ r1.user_id = r2.user_id /\ r1.timestamp = r2.timestamp)
            => r1 = r2

\* C19: after any sequence and any interleaving of store operations the
\* store holds at most one record for each (chat_id, user_id, timestamp), and
\* a store leaves exactly one record with its triple, carrying its content,
\* also when the triple was there before.
C19_OneRecordPerTriple ==
    [][/\ UniqueTriples(db_rows')
       /\ \A p \in Clients :
             (ops[p].pc = "locked" /\ ops'[p].pc = "inserted") =>
                 /\ Cardinality({r \in db_rows' : SameTriple(r, ops[p].memory)}) = 1
                 /\ \A r \in db_rows' :
                       SameTriple(r, ops[p].memory) => r.content = ops[p].memory.content
                 /\ \A r \in db_rows : ~SameTriple(r, ops[p].memory) => r \in db_rows']_vars

\* Two stores of one triple have returned, the later with another content.
C19_Witness ==
    /\ Len(store_log) = 2
    /\ store_log[1].memory.content = "a"
    /\ store_log[2].memory = [store_log[1].memory EXCEPT !.content = "b"]
    /\ Cardinality(db_rows) = 1
    /\ \A r \in db_rows : r.content = "b"

\* The first store of memory m's triple that returned.
FirstStore(m) ==
    CHOOSE i \in 1..Len(store_log) :
        /\ SameTriple(Row(0, store_log[i].memory), m)
        /\ \A j \in 1..(i - 1) : ~SameTriple(Row(0, store_log[j].memory), m)

\* C20 (as claimed): a memory's id is assigned on insert and never changes.
\* After a later store of the same triple has returned, the record of the
\* triple still carries the id the first store returned, and get_memory of
\* that id still gives the record.  INSERT OR REPLACE deletes the row and
\* inserts a new one under a fresh rowid, so the record changes its id.
C20_IdNeverChanges ==
    (\A p \in Clients : ops[p].pc = "idle") =>
        \A i \in 1..Len(store_log) :
            LET m     == store_log[i].memory
                first == store_log[FirstStore(m)].id
            IN  /\ \A r \in db_rows : SameTriple(r, m) => r.id = first
                /\ get_memory(db_rows, first) # Null
                /\ SameTriple(Row(first, get_memory(db_rows, first)), m)

-----------------------------------------------------------------------------
(* Properties of the planning loop's steps *)

\* This step is a next-step call whose reply parsed as an `answer` action
\* that has no final_answer parameter.
AnswerWithoutFinalAnswer ==
    /\ Len(calls') = Len(calls) + 1
    /\ calls'[Len(calls')].kind = "next_step"
    /\ calls'[Len(calls')].ok
    /\ parsed'.some
    /\ parsed'.action_type = <<"answer">>
    /\ ~HasKey(parsed'.parameters, "final_answer")

\* C26: when a Thinking reply parses as an `answer` action without a
\* final_answer parameter, exactly one thought noting the omission is
\* appended, the state stays Thinking, current_step is unchanged and no
\* action and no observation is appended.
C26_AnswerWithoutParameter ==
    [][AnswerWithoutFinalAnswer =>
          /\ state = "Thinking" /\ state' = "Thinking"
          /\ Len(thoughts') = Len(thoughts) + 1
          /\ SubSeq(thoughts', 1, Len(thoughts)) = thoughts
          /\ thoughts'[Len(thoughts')].content = <<"I need to provide a clear answer">>
          /\ current_step' = current_step
          /\ actions' = actions
          /\ observations' = observations
          /\ pc' = "loop"]_vars

\* The omission was noted after an action had been executed.
C26_Witness ==
    /\ LastReplyIsNextStep
    /\ parsed.some /\ parsed.action_type = <<"answer">>
    /\ ~HasKey(parsed.parameters, "final_answer")
    /\ state = "Thinking"
    /\ current_step = 1
    /\ thoughts[Len(thoughts)].content = <<"I need to provide a clear answer">>

\* The changes of the planning state the loop may make.
StateChanges ==
    {<<"Start", "Thinking">>, <<"Thinking", "Acting">>, <<"Thinking", "Finished">>,
     <<"Acting", "Observing">>, <<"Observing", "Thinking">>}

\* C28: the planning state starts at Start and changes only along
\* Start->Thinking, Thinking->Thinking, Thinking->Acting, Thinking->Finished,
\* Acting->Observing and Observing->Thinking; Finished is terminal and
\* Observing is entered only from Acting.
C28_StateTransitions ==
    [][/\ pc = "idle" => state = "Start"
       /\ state' # state => <<state, state'>> \in StateChanges
       /\ state = "Finished" => state' = "Finished"
       /\ (state' = "Observing" /\ state # "Observing") => state = "Acting"]_vars

\* A run that went through every state: an action was executed and the
\* answer came afterwards.
C28_Witness ==
    /\ state = "Finished"
    /\ Len(observations) = 1
    /\ current_step = 1
    /\ pc = "returned"

\* C29: current_step never exceeds max_steps and changes only by +1 in
\* Observing; whenever the state is Thinking the number of actions, the
\* number of observations and current_step are equal, so a run executes at
\* most max_steps actions.
C29_StepCounter ==
    [][/\ current_step' <= max_steps
       /\ current_step' # current_step =>
             (state = "Observing" /\ current_step' = current_step + 1)
       /\ state' = "Thinking" =>
             (Len(actions') = current_step' /\ Len(observations') = current_step')
       /\ Len(actions') <= max_steps]_vars

\* The last step was counted: max_steps actions were executed.
C29_Witness ==
    /\ state = "Thinking"
    /\ current_step = max_steps
    /\ Len(actions) = max_steps
    /\ Len(observations) = max_steps

FailedCalls(kind) == {i \in 1..Len(calls) : calls[i].kind = kind /\ ~calls[i].ok}

\* C30: run returns an error only when a next-step call in Thinking fails
\* while no observation has been recorded; a gateway failure during action
\* execution, during the direct prompt of the > 5 guard or during the
\* final-answer synthesis never makes run return an error.
C30_ErrorOnlyFromThinking ==
    /\ result.tag = "Err" =>
          /\ ThinkingCallFailed
          /\ observations = <<>>
          /\ result.answer = <<"Failed to get LLM response: ">> \o LastCall.text
    /\ (pc = "returned" /\ calls # <<>> /\ LastCall.kind \in {"tool", "direct", "final"}) =>
          result.tag = "Ok"
    /\ (pc = "returned" /\ FailedCalls("tool") # {}) => result.tag = "Ok"

\* A run whose tool call and final-answer call both failed returned an answer.
C30_Witness ==
    /\ pc = "returned"
    /\ result.tag = "Ok"
    /\ FailedCalls("tool") # {}
    /\ FailedCalls("final") # {}

\* The messages of the transcript that list an item, and the item's index.
Listed(tag) == {k \in 1..Len(transcript) : transcript[k].content[1] = tag}

ItemIndex(k) ==
    CHOOSE i \in 1..(Len(thoughts) + 1) : transcript[k].content[2] = ToString(i)

NextStepPrompt ==
    Message("user", <<"What is your next step? You can either think more about the problem, take an action, or provide your final answer.">>)

\* C27 (as claimed): the transcript of every next-step call lists the
\* thoughts, actions and observations in the order of their creation: each
\* action comes after every thought created before it and directly before
\* its own observation, and one user prompt asking for the next step ends
\* the transcript.  build_message_history lists action i and observation i
\* right after thought i, whatever was created in between.
C27_TranscriptInCreationOrder ==
    transcript # <<>> =>
        /\ transcript[Len(transcript)] = NextStepPrompt
        /\ \A k \in 1..(Len(transcript) - 1) : transcript[k] # NextStepPrompt
        /\ \A k \in Listed("Action ") :
              /\ \A t \in Listed("Thought ") :
                    thoughts[ItemIndex(t)].id < actions[ItemIndex(k)].id => t < k
              /\ \A o \in Listed("Observation ") :
                    ItemIndex(o) = ItemIndex(k) => o = k + 1

-----------------------------------------------------------------------------
(* Properties of the memory store's queries *)

\* This step is the return of a store_memory call of client p.
StoreReturns(p) == ops[p].pc = "inserted" /\ ops'[p].pc = "idle"

SameEmbedding(e1, e2) ==
    /\ e1.some = e2.some
    /\ e1.some => /\ Len(e1.value) = Len(e2.value)
                  /\ \A i \in 1..Len(e1.value) : e1.value[i] = e2.value[i]

\* C21: get_memory of the id that store_memory(m) returns gives a Memory
\* with m's chat_id, user_id, content and metadata and with an embedding
\* equal to m's element by element; a Memory stored without an embedding
\* is read back without one.
C21_StoreThenGet ==
    [][\A p \in Clients :
          StoreReturns(p) =>
              LET m   == ops[p].memory
                  id  == store_log'[Len(store_log')].id
                  got == get_memory(db_rows', id)
              IN  /\ got # Null
                  /\ got.id = id
                  /\ got.chat_id = m.chat_id
                  /\ got.user_id = m.user_id
                  /\ got.content = m.content
                  /\ got.metadata = m.metadata
                  /\ SameEmbedding(got.embedding, m.embedding)
                  /\ ~m.embedding.some => got.embedding = None]_vars

\* A memory with the embedding (3.0, 0.0) was stored and read back by its
\* id; 3.0 has a mantissa that is not zero.
C21_Witness ==
    /\ Len(store_log) = 1
    /\ store_log[1].memory.embedding = Some(<<3, 0>>)
    /\ returned.op = "get_memory"
    /\ returned.id = store_log[1].id
    /\ returned.value # Null
    /\ returned.value.embedding = Some(<<3, 0>>)
    /\ returned.value.metadata = Some("{}")

\* This step is a query `op` of the store that returns.
Returns(op) == returned'.op = op /\ (returned.op # op \/ returned' # returned)

\* The ids of the memories in a sequence.
Ids(memories) == {memories[i].id : i \in 1..Len(memories)}

\* C22: get_recent_memories(chat_id, limit) returns only memories of the
\* chat, at most `limit` of them, the newest first, and no memory of the
\* chat that it leaves out is newer than one it returns.
C22_RecentNewestFirst ==
    [][Returns("get_recent_memories") =>
          LET v      == returned'.value
              ofChat == {FromRow(r) : r \in RecentRows(db_rows, returned'.chat_id)}
          IN  /\ \A i \in 1..Len(v) : v[i] \in ofChat /\ v[i].chat_id = returned'.chat_id
              /\ \A i, j \in 1..Len(v) : i # j => v[i].id # v[j].id
              /\ Len(v) = Min(returned'.limit, Cardinality(ofChat))
              /\ \A i, j \in 1..Len(v) : i < j => v[i].timestamp >= v[j].timestamp
              /\ \A m \in ofChat :
                    m.id \notin Ids(v) => \A i \in 1..Len(v) : v[i].timestamp >= m.timestamp]_vars

\* Three memories of chat c1 with three timestamps are held and the two
\* newest were returned, 00:00:10 before 00:00:09.500.
C22_Witness ==
    /\ Cardinality({r.timestamp : r \in RecentRows(db_rows, "c1")}) = 3
    /\ returned.op = "get_recent_memories"
    /\ returned.chat_id = "c1"
    /\ returned.limit = 2
    /\ Len(returned.value) = 2
    /\ returned.value[1].timestamp = At(1, 10000)
    /\ returned.value[2].timestamp = At(1, 9500)

\* The position of the memory with this id in the scan.
ScanPosition(scan, id) == CHOOSE k \in 1..Len(scan) : scan[k].id = id

\* Entry x of the result may stand before memory m: it scores higher, or
\* the same and was scanned earlier.
RanksBefore(x, m, scan, query_embedding) ==
    LET score == cosine_similarity(query_embedding, m.embedding.value)
    IN  /\ ~ScoreLess(x[2], score)
        /\ ~ScoreLess(score, x[2]) => ScanPosition(scan, x[1].id) < ScanPosition(scan, m.id)

\* C23: search_similar_memories(chat_id, query_embedding, limit) returns
\* only memories of the chat that carry an embedding, each with its cosine
\* similarity to the query, sorted by score descending with equal scores in
\* their scan order, cut to the top `limit`.
C23_SimilarSortedStable ==
    [][Returns("search_similar_memories") =>
          LET v    == returned'.value
              scan == returned'.scan
              q    == returned'.query_embedding
              held == {FromRow(r) : r \in {x \in db_rows : x.chat_id = returned'.chat_id
                                                             /\ x.embedding # None}}
          IN  /\ {scan[k] : k \in 1..Len(scan)} = held
              /\ Len(scan) = Cardinality(held)
              /\ Len(v) = Min(returned'.limit, Len(scan))
              /\ \A i \in 1..Len(v) :
                    /\ v[i][1] \in held
                    /\ v[i][2] = cosine_similarity(q, v[i][1].embedding.value)
              /\ \A i, j \in 1..Len(v) :
                    i < j => /\ v[i][1].id # v[j][1].id
                             /\ RanksBefore(v[i], v[j][1], scan, q)
              /\ \A m \in held :
                    m.id \notin {v[i][1].id : i \in 1..Len(v)} =>
                        \A i \in 1..Len(v) : RanksBefore(v[i], m, scan, q)]_vars

\* Chat c1 held the embeddings (3, 0), (2, 0) and an empty one, scanned in this
\* order; for the query (2, 0) the first two score the same and are
\* returned in their scan order, the third is cut.
C23_Witness ==
    /\ returned.op = "search_similar_memories"
    /\ returned.chat_id = "c1"
    /\ returned.query_embedding = <<2, 0>>
    /\ returned.limit = 2
    /\ Len(returned.scan) = 3
    /\ returned.scan[1].embedding = Some(<<3, 0>>)
    /\ returned.scan[2].embedding = Some(<<2, 0>>)
    /\ Len(returned.value) = 2
    /\ returned.value[1][1] = returned.scan[1]
    /\ returned.value[2][1] = returned.scan[2]

\* C24: cleanup_old_memories(chat_id, days) deletes exactly the memories of
\* the chat whose timestamp is before now - days, returns their number, and
\* leaves the memories of other chats and those at or after the cutoff.
C24_CleanupExactlyOld ==
    [][Returns("cleanup_old_memories") =>
          LET old == {r \in db_rows : /\ r.chat_id = returned'.chat_id
                                      /\ ParseRfc3339(r.timestamp) < returned'.cutoff}
          IN  /\ db_rows' = db_rows \ old
              /\ returned'.value = Cardinality(old)
              /\ \A r \in db_rows :
                    (r.chat_id # returned'.chat_id
                     \/ ParseRfc3339(r.timestamp) >= returned'.cutoff) => r \in db_rows']_vars

\* Three memories were stored; the cleanup of chat c1 with the cutoff
\* 00:00:09.500 deleted the one of 00:00:09 and left the one at the cutoff
\* and the older one of chat c2.
C24_Witness ==
    /\ Len(store_log) = 3
    /\ returned.op = "cleanup_old_memories"
    /\ returned.chat_id = "c1"
    /\ returned.cutoff = At(1, 9500)
    /\ returned.value = 1
    /\ Cardinality(db_rows) = 2
    /\ \E r \in db_rows : r.chat_id = "c1" /\ r.timestamp = ToRfc3339(At(1, 9500))
    /\ \E r \in db_rows : r.chat_id = "c2" /\ r.timestamp = ToRfc3339(At(1, 9000))


\* The reply that lists these lines for the query of the recall.
Remembered(text, lines) ==
    RecallOk(<<"Here's what I remember about '">> \o text \o <<"':\n\n">> \o Join(lines))

\* C25: recall reports the results of the search when the embedding
\* succeeded and the search gave at least one result; when the embedding
\* failed, or the search gave nothing or failed, it reports exactly the
\* memories of get_recent_memories(chat_id, 5), in their order; when that
\* gives nothing either the reply is the "no relevant memories" message
\* and not an error.
C25_RecallFallbackChain ==
    [][Returns("recall_memory") =>
          LET r     == returned'
              found == r.embedded.ok /\ r.search.ok /\ r.search.value # <<>>
          IN  /\ r.embedded.ok <=> r.search.called
              /\ r.search.ok =>
                    \E scan \in Orderings(SimilarRows(db_rows, r.chat_id)) :
                        r.search.value = search_similar_memories(scan, r.embedded.value, 5)
              /\ found =>
                    r.value = Remembered(r.query, [i \in 1..Len(r.search.value) |->
                                                      SimilarLine(r.search.value[i])])
              /\ ~found =>
                    /\ r.recent.called
                    /\ r.recent.ok =>
                          \E order \in Orderings(RecentRows(db_rows, r.chat_id)) :
                              /\ TimestampDesc(order)
                              /\ r.recent.value = get_recent_memories(order, 5)
                    /\ (r.recent.ok /\ r.recent.value # <<>>) =>
                          r.value = Remembered(r.query, [i \in 1..Len(r.recent.value) |->
                                                            RecentLine(r.recent.value[i])])
                    /\ (r.recent.ok /\ r.recent.value = <<>>) =>
                          r.value = RecallOk(<<"I don't have any relevant memories for that query.">>)
              /\ ~r.value.ok => (r.recent.called /\ ~r.recent.ok)]_vars

\* The embedding succeeded, the search found nothing in a chat whose only
\* memory has no embedding, and the reply lists that memory from the
\* recency query.
C25_Witness ==
    /\ returned.op = "recall_memory"
    /\ returned.chat_id = "c1"
    /\ returned.embedded.ok
    /\ returned.search = Gave(<<>>)
    /\ returned.recent.ok
    /\ Len(returned.recent.value) = 1
    /\ returned.value = RecallOk(<<"Here's what I remember about '", "q", "':\n\n",
                                   "- [", "2024-01-0", "2", " 00:00", "]: ", "a">>)


-----------------------------------------------------------------------------
(* Properties of the last group of claims *)

\* The waits of a call follow the claimed schedule: 1000 ms before the
\* first retry, doubled before each further one, none after the last attempt.
ClaimedSchedule(call) ==
    /\ Len(call.waits) <= MAX_RETRIES - 1
    /\ Len(call.waits) = IF call.pc = "returned" /\ call.retries = MAX_RETRIES
                         THEN call.retries - 1 ELSE call.retries
    /\ \A i \in 1..Len(call.waits) : call.waits[i] = 1000 * (2 ^ (i - 1))

\* C31 (as claimed): between the attempts of one chat or embed_text call
\* the gateway waits 1000 ms before the first retry and 2000 ms before the
\* second, and does not wait after the last failed attempt.  The code
\* increments retries before it computes RETRY_DELAY_MS * 2^retries, so the
\* waits are 2000 ms and 4000 ms.
C31_BackoffFromBase ==
    /\ ClaimedSchedule(chat_call)
    /\ ClaimedSchedule(embed_call)


\* The clients whose closure holds the connection.
Holders == {p \in Clients : ops[p].pc \in {"locked", "inserted"}}

\* At most one closure holds the connection, and it is the one the mutex names.
OneHolder ==
    /\ Cardinality(Holders) <= 1
    /\ \A p \in Holders : db_lock = p
    /\ Holders = {} => db_lock = 0

\* This step reads or writes the connection: the table or the last rowid
\* changes, or a query returns.
AccessesConnection ==
    \/ db_rows' # db_rows
    \/ last_insert_rowid' # last_insert_rowid
    \/ store_log' # store_log
    \/ returned'.op # returned.op
    \/ returned' # returned

\* C32: under any interleaving of concurrent store_memory, get_memory,
\* get_recent_memories, search_similar_memories and cleanup_old_memories
\* calls at most one of them holds the connection, and every read or write
\* of the connection is a step of the holder during which no other call moves.
C32_OneOperationAtATime ==
    [][/\ OneHolder
       /\ OneHolder'
       /\ AccessesConnection =>
             \E p \in Clients :
                 /\ Holders = {p}
                 /\ \A q \in Clients \ {p} : ops'[q] = ops[q]
                 /\ \A q \in Clients \ {p} : ops[q].pc \in {"idle", "waiting"}]_vars

\* A store waits for the mutex while the closure of a cleanup holds it.
C32_Witness ==
    \E p, q \in Clients :
        /\ ops[p].pc = "locked"
        /\ ops[p].call.op = "cleanup_old_memories"
        /\ ops[q].pc = "waiting"
        /\ ops[q].call.op = "store_memory"
        /\ db_lock = p
        /\ db_rows # {}

\* This step is the return of a store_memory call of client p, with the id
\* it returns.
ReturnedId == store_log'[Len(store_log')].id

\* C39: under any interleaving of concurrent stores the id that a
\* store_memory call returns is the id of the record this call wrote: the
\* insert and the read of last_insert_rowid are in one critical section.
C39_ReturnsOwnId ==
    [][\A p \in Clients :
          (ops[p].pc = "inserted" /\ ops'[p].pc = "idle") =>
              /\ Len(store_log') = Len(store_log) + 1
              /\ Row(ReturnedId, ops[p].memory) \in db_rows'
              /\ \A q \in Clients \ {p} : ops[q].pc \in {"idle", "waiting"}]_vars

\* Two stores of different memories have returned different ids, and a
\* third store waits for the mutex.
C39_Witness ==
    /\ Len(store_log) = 2
    /\ store_log[1].id # store_log[2].id
    /\ store_log[1].memory # store_log[2].memory
    /\ \E p \in Clients : ops[p].pc = "waiting"
    /\ Cardinality(db_rows) = 2


\* The store_memory calls that returned and whose record is still in the
\* table: neither removed by a cleanup nor replaced by a later store.
StillHeld == {i \in 1..Len(store_log) : Row(store_log[i].id, store_log[i].memory) \in db_rows}

\* A record leaves the table only by a cleanup of its chat or by a store
\* of its (chat_id, user_id, timestamp).
LeavesOnlyByCleanupOrReplace ==
    \A r \in db_rows \ db_rows' :
        \/ /\ returned'.op = "cleanup_old_memories"
           /\ returned'.chat_id = r.chat_id
           /\ returned'.value > 0
           /\ \A p \in Clients : ops'[p].pc # "inserted"
        \/ \E p \in Clients :
              /\ ops[p].pc = "locked" /\ ops'[p].pc = "inserted"
              /\ SameTriple(r, ops[p].memory)

\* This step is the return of a query that leaves the table as it is.
QueryReturns ==
    /\ db_rows' = db_rows
    /\ returned'.op # returned.op \/ returned' # returned

\* get_memory and get_recent_memories observe the held record of store i.
SeenByIdAndRecency(i) ==
    LET m == store_log[i].memory
        id == store_log[i].id
    IN  /\ (Returns("get_memory") /\ returned'.id = id) =>
              returned'.value = FromRow(Row(id, m))
        /\ (/\ Returns("get_recent_memories")
            /\ returned'.chat_id = m.chat_id
            /\ returned'.limit >= Cardinality(RecentRows(db_rows, m.chat_id))) =>
              \E k \in 1..Len(returned'.value) : returned'.value[k] = FromRow(Row(id, m))

\* search_similar_memories with a large enough limit observes the held
\* record of store i.
SeenBySearch(i) ==
    LET m == store_log[i].memory
        id == store_log[i].id
    IN  (/\ Returns("search_similar_memories")
         /\ returned'.chat_id = m.chat_id
         /\ returned'.limit >= Cardinality(RecentRows(db_rows, m.chat_id))) =>
            \E k \in 1..Len(returned'.value) : returned'.value[k][1] = FromRow(Row(id, m))

\* C33 (as claimed): once store_memory(m) has returned, every later
\* get_memory of the returned id and every later get_recent_memories and
\* search_similar_memories for m's chat with a large enough limit observes
\* m, until m is removed by a cleanup or replaced by a store of its key.
C33_EveryQueryObserves ==
    [][/\ db_rows' # db_rows => LeavesOnlyByCleanupOrReplace
       /\ QueryReturns =>
             \A i \in StillHeld : SeenByIdAndRecency(i) /\ SeenBySearch(i)]_vars

\* C33 (amended): as above, but search_similar_memories observes m only
\* when m was stored with an embedding; a memory without one is never
\* among the results of a search.
C33_QueriesObserveStored ==
    [][/\ db_rows' # db_rows => LeavesOnlyByCleanupOrReplace
       /\ QueryReturns =>
          \A i \in StillHeld :
             /\ SeenByIdAndRecency(i)
             /\ store_log[i].memory.embedding.some => SeenBySearch(i)
             /\ (/\ ~store_log[i].memory.embedding.some
                 /\ Returns("search_similar_memories")) =>
                   \A k \in 1..Len(returned'.value) :
                       returned'.value[k][1].id # store_log[i].id]_vars

\* Chat c1 holds a memory without an embedding and one with an embedding;
\* a search with limit 2 returned the second only.
C33_Witness ==
    /\ Len(store_log) = 2
    /\ StillHeld = {1, 2}
    /\ store_log[1].memory.chat_id = "c1"
    /\ store_log[2].memory.chat_id = "c1"
    /\ ~store_log[1].memory.embedding.some
    /\ store_log[2].memory.embedding.some
    /\ returned.op = "search_similar_memories"
    /\ returned.chat_id = "c1"
    /\ returned.limit = 2
    /\ Len(returned.value) = 1
    /\ returned.value[1][1].id = store_log[2].id


\* Both runs have returned after the same query and the same replies.
SameRunTwice ==
    /\ pc = "returned"
    /\ suspended.pc = "returned"
    /\ query = suspended.query
    /\ calls = suspended.calls

\* C34: two interleaved runs share no planning state.  A step of one run
\* leaves the locals of the other as they are, a switch gives each run the
\* locals it had, and two runs with the same query and the same replies
\* return the same answer and observation list however they interleave.
C34_RunsShareNoState ==
    [][/\ scheduled' = scheduled => suspended' = suspended
       /\ scheduled' # scheduled => (suspended' = Locals /\ Locals' = suspended)
       /\ SameRunTwice' => result' = suspended'.result]_vars

\* Both runs asked "why", called a tool and returned an answer with its
\* observation; the first run is the one that finished last.
C34_Witness ==
    /\ SameRunTwice
    /\ scheduled = 1
    /\ query = <<"w", "h", "y">>
    /\ Len(calls) >= 2
    /\ result.tag = "Ok"
    /\ result.observations # <<>>
    /\ result = suspended.result

\* The remindme executions that have returned from the counter block.
RemindersDone == {e \in Executions : reminders[e].pc = "done"}

RemindersCalled == {e \in Executions : reminders[e].pc # "idle"}

\* C35: every remindme execution obtains a unique reminder id: no two
\* executions obtain the same value from the counter, and once every called
\* execution has its id the counter equals the number of executions.
C35_UniqueReminderIds ==
    /\ \A e1, e2 \in RemindersDone :
           e1 # e2 => reminders[e1].reminder_id # reminders[e2].reminder_id
    /\ RemindersDone = RemindersCalled => REMINDER_COUNTER = Cardinality(RemindersCalled)

\* The observations recorded for the i-th action.
ObservationsOf(i) ==
    {j \in 1 .. Len(observations) : observations[j].action_id = actions[i].id}

\* No recorded action is an answer, and every action before the last has
\* exactly one observation.
ActionsObserved ==
    /\ \A i \in 1 .. Len(actions) : actions[i].action_type # <<"answer">>
    /\ \A i \in 1 .. Len(actions) - 1 : Cardinality(ObservationsOf(i)) = 1

\* C36: the actions list holds no answer action and every action except
\* possibly the last has exactly one observation; Acting is entered only by
\* the step that appends an action, so Acting always finds an action to
\* execute, and the action it executes is never an answer.
C36_ActingHasAnAction ==
    [][/\ ActionsObserved /\ ActionsObserved'
       /\ (state # "Acting" /\ state' = "Acting") =>
              /\ Len(actions') = Len(actions) + 1
              /\ SubSeq(actions', 1, Len(actions)) = actions
       /\ state = "Acting" =>
              /\ actions # <<>>
              /\ actions[Len(actions)].action_type # <<"answer">>
              /\ ObservationsOf(Len(actions)) = {}
       /\ (state = "Acting" /\ state' # "Acting") =>
              /\ state' = "Observing"
              /\ Cardinality({j \in 1 .. Len(observations') :
                     observations'[j].action_id = actions[Len(actions)].id}) = 1]_vars

\* Acting is about to execute a second action while the first has its observation.
C36_Witness ==
    /\ state = "Acting"
    /\ Len(actions) = 2
    /\ Cardinality(ObservationsOf(1)) = 1
    /\ ObservationsOf(2) = {}

\* How many memories of the chat carry an embedding.
WithEmbedding(chat_id) == Cardinality({r \in db_rows : r.chat_id = chat_id /\ r.embedding.some})

\* Every entry is a memory with an embedding.
AllEmbedded(entries) == \A i \in 1 .. Len(entries) : entries[i][1].embedding.some

\* C37: search_similar applies no score threshold: it returns min(limit,
\* number of memories of the chat with an embedding) results whatever their
\* scores; a recall whose embedding succeeds falls back to the recency
\* listing only when the chat has no memory with an embedding or the search
\* fails; a recall that reports the semantic results reports no memory
\* stored without an embedding.
C37_NoScoreThreshold ==
    [][/\ Returns("search_similar_memories") =>
              LET r == returned'
              IN  /\ Len(r.value) = Min(r.limit, WithEmbedding(r.chat_id))
                  /\ AllEmbedded(r.value)
       /\ Returns("recall_memory") =>
              LET r == returned'
              IN  /\ r.search.ok => Len(r.search.value) = Min(RecallLimit, WithEmbedding(r.chat_id))
                  /\ r.embedded.ok =>
                        (r.recent.called <=> (WithEmbedding(r.chat_id) = 0 \/ ~r.search.ok))
                  /\ (r.embedded.ok /\ ~r.recent.called) =>
                        /\ AllEmbedded(r.search.value)
                        /\ r.value = RecallOk(<<"Here's what I remember about '">> \o r.query
                               \o <<"':\n\n">>
                               \o Join([i \in 1 .. Len(r.search.value) |->
                                           SimilarLine(r.search.value[i])]))]_vars

\* A recall reports two semantic results, neither scoring above zero, while
\* the chat also holds a memory without an embedding.
C37_Witness ==
    /\ returned.op = "recall_memory"
    /\ returned.embedded.ok
    /\ returned.search.ok
    /\ ~returned.recent.called
    /\ Len(returned.search.value) = 2
    /\ \A i \in 1 .. 2 : returned.search.value[i][2].num <= 0
    /\ \E r \in db_rows : r.chat_id = returned.chat_id /\ ~r.embedding.some

\* The rows that hold what the command was given, under the id the store gave.
RowsOfCommand(rows, r) ==
    {row \in rows : /\ row.id = r.stored.value
                    /\ row.chat_id = r.chat_id
                    /\ row.user_id = r.user_id
                    /\ row.content = r.content
                    /\ row.timestamp = ToRfc3339(r.now)}

\* C38: the store command persists the memory even when the embedding
\* request fails: the record is then stored with a null embedding and the
\* command reports success; the command reports an error only when the
\* write of the MemoryStore fails, and then nothing is stored.
C38_StoreSurvivesEmbeddingFailure ==
    [][Returns("store_command") =>
          LET r == returned'
          IN  /\ r.value.ok <=> r.stored.ok
              /\ r.stored.ok =>
                    /\ r.value = RecallOk(<<"I've stored this information in my memory.">>)
                    /\ RowsOfCommand(db_rows', r) # {}
                    /\ \A row \in RowsOfCommand(db_rows', r) :
                          /\ row.embedding.some <=> r.embedded.ok
                          /\ r.embedded.ok => row.embedding.value = FlatBytes(r.embedded.value)
                          /\ row.metadata = None
              /\ ~r.stored.ok =>
                    /\ db_rows' = db_rows
                    /\ r.value = RecallErr(<<"Failed to store memory: ", "storage error">>)]_vars

\* A command whose embedding request failed reported success, and its
\* record is in the table with a null embedding.
C38_Witness ==
    /\ returned.op = "store_command"
    /\ ~returned.embedded.ok
    /\ returned.value.ok
    /\ \E row \in RowsOfCommand(db_rows, returned) : row.embedding = None

\* The first gateway call of the run was a next-step call that gave the empty reply.
FirstReplyEmpty == calls # <<>> /\ calls[1] = Call("next_step", Outcome(TRUE, <<>>))

\* C40: when the first next-step call of a run returns the empty reply,
\* which is also what the gateway returns for a completion without content,
\* the session finishes at once: no further gateway call is made, nothing
\* is executed or observed, and run returns the empty text as the answer
\* with an empty observation list.
C40_EmptyReplyFinishes ==
    /\ ChatOnSuccess(NewCall, ProviderOk(<<NoText>>, <<>>)).result = GwOk(<<>>)
    /\ FirstReplyEmpty =>
          /\ Len(calls) = 1
          /\ state = "Finished"
          /\ final_answer = <<>>
          /\ actions = <<>>
          /\ observations = <<>>
          /\ pc = "returned" => result = Ok(<<>>, <<>>)

\* The run has returned after its one call, whose reply was empty.
C40_Witness ==
    /\ FirstReplyEmpty
    /\ pc = "returned"
    /\ result = Ok(<<>>, <<>>)
    /\ Len(calls) = 1

=============================================================================
